---- MODULE Spec2Model ----
(***************************************************************************)
(* Endurance / energy calculator of the uav-sim-lab dashboards.            *)
(*                                                                         *)
(* Every dashboard variant is a Streamlit script: the form is shown, the   *)
(* user presses Estimate, the handler under `if submitted:` runs once from *)
(* top to bottom and the page waits for the next submission.  One action   *)
(* of this module is one run of one variant's handler.                     *)
(*                                                                         *)
(* Numbers.  The scripts compute in floating point; the model computes in  *)
(* fixed point with floor rounding, in these units:                        *)
(*     mass      g            energy   mWh          power   mW             *)
(*     time      1/1000 min   distance m            speed   km/h, mm/s     *)
(*     temperature degC (whole degrees)             factors as stated      *)
(* Products that would leave the 32-bit range are formed by MulDiv.        *)
(***************************************************************************)
EXTENDS Integers, Sequences, FiniteSets, TLC

\* variant: the script being served; pc, inp, outcome, res: the current run;
\* profiles: the profile table the script built when it was started;
\* previous: the run shown before the page was rerun (history only)
VARIABLES variant, pc, inp, outcome, res, profiles, previous

vars == <<variant, pc, inp, outcome, res, profiles, previous>>

(***************************************************************************)
(* Arithmetic of the scripts' float expressions.                           *)
(***************************************************************************)

\* floor(a * b / c) for b >= 0 and 0 < c < 2^28, without forming a * b:
\* b is taken in digits of a base chosen so that base * c stays below 2^30.
MulDiv(a, b, c) ==
  LET base == IF c <= 1024 THEN 524288
              ELSE IF c <= 32768 THEN 16384
              ELSE IF c <= 1048576 THEN 512
              ELSE IF c <= 33554432 THEN 16
              ELSE 2
      RECURSIVE QR(_)
      QR(n) == IF n = 0 THEN <<0, 0>>
               ELSE LET h == QR(n \div base)
                        s == base * h[2] + (n % base) * (a % c)
                    IN  <<base * h[1] + (n % base) * (a \div c) + (s \div c), s % c>>
  IN  QR(b)[1]

\* floor(sqrt(n)) for 0 <= n < 2^31  (x ** 0.5, math.sqrt), one hexadecimal
\* digit of the root at a time
ISqrt(n) ==
  LET Fits(x) == x <= 46340 /\ x * x <= n
      Digit(lo, step) == lo + step * Cardinality({k \in 1..15 : Fits(lo + k * step)})
  IN  Digit(Digit(Digit(Digit(0, 4096), 256), 16), 1)

Max(a, b) == IF a >= b THEN a ELSE b
Min(a, b) == IF a <= b THEN a ELSE b
Abs(a) == IF a < 0 THEN 0 - a ELSE a

(***************************************************************************)
(* Bounds of the model: how finely the inputs are sampled.                 *)
(***************************************************************************)
PayloadSteps == 2
ClimbSteps == 1
SpeedSteps == 1

(***************************************************************************)
(* Steps shared by the variants (the same lines are repeated in each       *)
(* script).                                                                *)
(***************************************************************************)

\* the derate with the thresholds 15 and 35 themselves derated
TemperatureDerateInclusive(battery_wh, temperature_c) ==
  IF temperature_c <= 15 THEN MulDiv(battery_wh, 90, 100)
  ELSE IF temperature_c >= 35 THEN MulDiv(battery_wh, 95, 100)
  ELSE battery_wh

\* if temperature_c < 15: battery *= 0.9 / elif temperature_c > 35: battery *= 0.95
TemperatureDerate(battery_wh, temperature_c) ==
  IF temperature_c < 15 THEN MulDiv(battery_wh, 90, 100)
  ELSE IF temperature_c > 35 THEN MulDiv(battery_wh, 95, 100)
  ELSE battery_wh

\* the potential energy with g rounded to 10
PotentialEnergyWhRoundG(weight_g, height_m) ==
  MulDiv(MulDiv(weight_g, 1000, 100), height_m, 3600)

\* weight_kg * 9.81 * height / 3600, in mWh, for height >= 0
PotentialEnergyWh(weight_g, height_m) ==
  MulDiv(MulDiv(weight_g, 981, 100), height_m, 3600)

\* compute_elevation_effect: signed change of the battery for an elevation gain
compute_elevation_effect(weight_g, elevation_gain_m) ==
  IF elevation_gain_m > 0 THEN 0 - PotentialEnergyWh(weight_g, elevation_gain_m)
  ELSE IF elevation_gain_m < 0
       THEN MulDiv(PotentialEnergyWh(weight_g, Abs(elevation_gain_m)), 2, 10)
       ELSE 0

\* (battery_wh / total_draw) * 60, in 1/1000 min
FlightTime(battery_wh, total_draw) == MulDiv(battery_wh, 60000, total_draw)

\* the distance with the minutes taken as hundredths of an hour
DistanceDecimalHour(flight_time, speed_kmh) == MulDiv(flight_time, speed_kmh, 100)

\* (flight_time_minutes / 60) * flight_speed_kmh, in m
Distance(flight_time, speed_kmh) == MulDiv(flight_time, speed_kmh, 60)

\* the payload test of app.py in place of payload_weight_g > max_lift
PayloadRejectedOnlyWithoutLift(payload_weight_g, max_lift) ==
  max_lift = 0 /\ payload_weight_g > 0

\* if payload_weight_g > max_lift: st.error(...); st.stop()
PayloadRejected(payload_weight_g, max_lift) == payload_weight_g > max_lift

\* the payload test with the boundary payload rejected as well
PayloadReachesLift(payload_weight_g, max_lift) == payload_weight_g >= max_lift

\* if payload_weight_g > max_lift: st.error(...) else: the calculation
PayloadExceedsLift(payload_weight_g, max_lift) == payload_weight_g > max_lift

\* app.py: if max_lift == 0 and payload_weight_g > 0
PayloadRejectedApp(payload_weight_g, max_lift) == max_lift = 0 /\ payload_weight_g > 0

(***************************************************************************)
(* Inputs the forms let through.                                           *)
(***************************************************************************)
FlightModes == {"Hover", "Forward Flight", "Waypoint Mission"}

\* temperature_c: a free number input; both sides of both thresholds
Temperatures == {10, 15, 25, 36}

\* elevation_gain_m: number_input(min_value=-1000, max_value=1000)
ElevationGains ==
  {0} \cup {1000 \div k : k \in 1..ClimbSteps} \cup {0 - (1000 \div k) : k \in 1..ClimbSteps}

\* flight_speed_kmh: number_input(min_value=0.0)
Speeds == {0, 30} \cup {100 * k : k \in 1..SpeedSteps}

\* payload_weight_g between 0 and max_lift, on a grid of PayloadSteps steps
PayloadsUpTo(max_lift) == {(k * max_lift) \div PayloadSteps : k \in 0..PayloadSteps}

NoInput ==
  [model |-> "", battery |-> 0, payload |-> 0, speed |-> 0, wind |-> 0,
   temp |-> 25, alt |-> 0, elev |-> 0, mode |-> "", simulate_failure |-> FALSE,
   wind_effects_enabled |-> TRUE, cloud_cover |-> 50, gustiness |-> 2,
   terrain_penalty |-> 110, stealth_choice |-> "Clean", allow_pack_override |-> FALSE,
   hybrid_assist |-> FALSE, assist_fraction |-> 10, assist_duration_min |-> 10]

\* the values a run computes; shown = the metrics written to the page
NoResult ==
  [max_lift |-> 0, total_weight |-> 0, start_wh |-> 0, derated_wh |-> 0,
   battery_capacity_wh |-> 0, total_draw |-> 0, flight_time_minutes |-> 0,
   distance_km |-> 0, shown |-> {}, elevation_effect |-> 0,
   V_ms |-> 0, V_ref_ms |-> 0, wind_penalty_frac |-> 0, lph |-> 0, usable_fuel_L |-> 0,
   assist_energy_Wh |-> 0, assist_duration_min |-> 0, fuel_saved_L |-> 0,
   raw_endurance_min |-> 0, dispatch_endurance_min |-> 0, best_km |-> 0, worst_km |-> 0,
   delta_T |-> 0, efficiency_penalty |-> 0, total_steps |-> 0, battery_remaining |-> 0,
   assigned |-> {}]

\* Live Simulation: total_steps = max(1, int(flight_time_min * 60 / time_step))
\* with time_step = 10 s; the flight time is in 1/1000 min
TotalSteps(flight_time_min) == Max(1, (flight_time_min * 60) \div 10000)

\* battery_remaining = battery_wh - (step * battery_per_step), with
\* battery_per_step = (total_draw * time_step) / 3600; shown as typed out
BatteryRemaining(battery_wh, total_draw, step) ==
  battery_wh - step * MulDiv(total_draw, 10, 3600)

\* no run has been shown yet
NoRun == [ran |-> FALSE, inp |-> NoInput, outcome |-> "none", res |-> NoResult]

\* a run that stores the capacity it ended with in the profile of the model
RunWritingBack(i, r) ==
  /\ inp' = i
  /\ outcome' = r.outcome
  /\ res' = r.res
  /\ pc' = "done"
  /\ profiles' = [profiles EXCEPT ![i.model].battery_wh = r.res.battery_capacity_wh]
  /\ UNCHANGED <<variant, previous>>

\* one run of a handler on the submitted form i: its outputs r are written to
\* the page, which then waits; the handlers assign to their own variables
\* only, never to an entry of the profile table
Run(i, r) ==
  /\ inp' = i
  /\ outcome' = r.outcome
  /\ res' = r.res
  /\ pc' = "done"
  /\ UNCHANGED <<variant, profiles, previous>>

(***************************************************************************)
(* Final.py                                                                *)
(***************************************************************************)
UAV_PROFILES_Final ==
  ( "RQ-11 Raven" :> [max_payload_g |-> 0, base_weight_g |-> 1900,
                      power_system |-> "Battery", draw_watt |-> 90, battery_wh |-> 50000] ) @@
  ( "RQ-20 Puma"  :> [max_payload_g |-> 600, base_weight_g |-> 6300,
                      power_system |-> "Battery", draw_watt |-> 180, battery_wh |-> 275000] ) @@
  ( "MQ-9 Reaper" :> [max_payload_g |-> 1700000, base_weight_g |-> 2223000,
                      power_system |-> "Hybrid", draw_watt |-> 800, battery_wh |-> 200000] )

\* battery_wh = st.number_input(..., value=<int>): any whole number, no minimum
BatteriesFinal == {-10000, 0, 1000, 50000, 275000}

\* if st.button("Estimate"): ... up to the live simulation
EstimateFinal ==
  /\ variant = "Final"
  /\ pc = "form"
  /\ \E drone_model \in DOMAIN UAV_PROFILES_Final, flight_mode \in FlightModes,
        battery_wh \in BatteriesFinal, elevation_gain_m \in ElevationGains,
        temperature_c \in Temperatures :
     LET p == profiles[drone_model]
         base_draw == p.draw_watt * 1000
         total_draw ==
           IF p.power_system = "Battery"
           THEN IF flight_mode = "Hover" THEN MulDiv(base_draw, 110, 100)
                ELSE IF flight_mode = "Waypoint Mission" THEN MulDiv(base_draw, 115, 100)
                ELSE base_draw
           ELSE base_draw
         derated == TemperatureDerate(battery_wh, temperature_c)
         weight_kg == p.base_weight_g
         effect ==
           IF elevation_gain_m > 0
           THEN 0 - PotentialEnergyWh(weight_kg, elevation_gain_m)
           ELSE IF elevation_gain_m < 0
                THEN MulDiv(PotentialEnergyWh(weight_kg, Abs(elevation_gain_m)), 2, 10)
                ELSE 0
         adjusted == derated + effect
         stopped == elevation_gain_m > 0 /\ adjusted <= 0
         common == [NoResult EXCEPT !.max_lift = p.max_payload_g,
                                    !.elevation_effect = effect,
                                    !.total_weight = weight_kg,
                                    !.start_wh = battery_wh,
                                    !.derated_wh = derated,
                                    !.battery_capacity_wh = adjusted,
                                    !.total_draw = total_draw]
     IN  /\ inp' = [NoInput EXCEPT !.model = drone_model, !.mode = flight_mode,
                                   !.battery = battery_wh, !.elev = elevation_gain_m,
                                   !.temp = temperature_c]
         /\ IF stopped
            THEN /\ outcome' = "aborted"
                 /\ res' = [common EXCEPT !.shown = {"climb_energy"}]
            ELSE /\ res' = [common EXCEPT
                              !.flight_time_minutes = FlightTime(adjusted, total_draw),
                              !.total_steps = TotalSteps(FlightTime(adjusted, total_draw)),
                              !.battery_remaining =
                                 BatteryRemaining(adjusted, total_draw,
                                                  TotalSteps(FlightTime(adjusted, total_draw))),
                              !.shown = {"power_draw", "flight_time"}]
                  \* the simulation loop divides by battery_wh (line 71)
                 /\ outcome' = IF adjusted = 0 THEN "uncaught_error" ELSE "reported"
  /\ pc' = "done"
  /\ UNCHANGED <<variant, profiles, previous>>

(***************************************************************************)
(* uav_simulator_published_final.py                                        *)
(***************************************************************************)
UAV_PROFILES_pub ==
  ( "Generic Quad" :> [max_payload_g |-> 800, base_weight_g |-> 1200,
                       power_system |-> "Battery", draw_watt |-> 170, battery_wh |-> 60000] ) @@
  ( "RQ-11 Raven"  :> [max_payload_g |-> 0, base_weight_g |-> 1900,
                       power_system |-> "Battery", draw_watt |-> 100, battery_wh |-> 24300] ) @@
  ( "MQ-1 Predator" :> [max_payload_g |-> 204000, base_weight_g |-> 512000,
                       power_system |-> "Hybrid", draw_watt |-> 900, battery_wh |-> 150000] ) @@
  ( "Teal Golden Eagle" :> [max_payload_g |-> 2000, base_weight_g |-> 2200,
                       power_system |-> "Hybrid", draw_watt |-> 300, battery_wh |-> 100000] )

\* "Custom Build": max_lift = (num_motors * thrust_per_motor) - 600 - 400, with
\* the form's default motors (4 x 1000 g); base_weight_kg = 1.2
CustomBuild == [max_payload_g |-> (4 * 1000) - 600 - 400, base_weight_g |-> 1200,
                power_system |-> "Custom", draw_watt |-> 0, battery_wh |-> 50000]

ModelsPub == DOMAIN UAV_PROFILES_pub \cup {"Custom Build"}

ProfilePub(drone_model) ==
  IF drone_model = "Custom Build" THEN CustomBuild ELSE UAV_PROFILES_pub[drone_model]

\* max(0.6, 1.0 - 0.01 * (altitude_m / 100)), in 1/10000
calculate_air_density_factor(altitude_m) == Max(6000, 10000 - altitude_m)

\* 170 * (total_weight_kg ** 1.5) / air_density_factor
HoverPower(total_weight, altitude_m) ==
  LET pow15 == MulDiv(total_weight, ISqrt(total_weight * 100000), 10000)
  IN  MulDiv(170 * pow15, 10000, calculate_air_density_factor(altitude_m))

\* total_power_draw per flight mode (lines 72-77)
TotalPowerDraw(hover_power, flight_mode, flight_speed_kmh, wind_speed_kmh) ==
  IF flight_mode = "Hover" THEN hover_power
  ELSE IF flight_mode = "Forward Flight"
       THEN MulDiv(hover_power, 115, 100) + 20 * flight_speed_kmh * flight_speed_kmh
              + 300 * wind_speed_kmh
       ELSE MulDiv(hover_power, 125, 100) + 22 * flight_speed_kmh * flight_speed_kmh
              + 360 * wind_speed_kmh

\* the penalty with a load ratio of exactly 0.7 still unpenalised
EfficiencyPenaltyAboveSeventy(payload_weight_g, max_lift) ==
  LET num == IF max_lift > 0 THEN payload_weight_g ELSE 0
      den == IF max_lift > 0 THEN max_lift ELSE 1
  IN  IF 10 * num > 7 * den /\ 10 * num < 9 * den THEN 110
      ELSE IF 10 * num >= 9 * den /\ num <= den THEN 125
      ELSE IF num > den THEN 140
      ELSE 100

\* load_ratio and efficiency_penalty (lines 79-86), in percent
EfficiencyPenalty(payload_weight_g, max_lift) ==
  LET num == IF max_lift > 0 THEN payload_weight_g ELSE 0
      den == IF max_lift > 0 THEN max_lift ELSE 1
  IN  IF 10 * num >= 7 * den /\ 10 * num < 9 * den THEN 110
      ELSE IF 10 * num >= 9 * den /\ num <= den THEN 125
      ELSE IF num > den THEN 140
      ELSE 100

\* Hybrid: base_draw * min(drag_factor * mass_penalty, 2.2)  (lines 89-98)
HybridDrawPub(base_draw, flight_mode, flight_speed_kmh, altitude_m, total_weight) ==
  LET drag_factor ==
        100000 + (IF flight_mode = "Forward Flight"
                  THEN 1000 * flight_speed_kmh + altitude_m
                  ELSE IF flight_mode = "Waypoint Mission"
                       THEN 1200 * flight_speed_kmh + (12 * altitude_m) \div 10
                       ELSE 0)
      mass_penalty == 10000 + (3 * total_weight) \div 100
      capped == Min(MulDiv(drag_factor, mass_penalty, 10000), 220000)
  IN  MulDiv(capped, base_draw, 100)

\* the handler under `if submitted:` as a function of the submitted form
CalcPub(i) ==
  LET p == IF i.model = "Custom Build" THEN CustomBuild ELSE profiles[i.model]
      max_lift == p.max_payload_g
      total_weight_kg == p.base_weight_g + i.payload
      derated == TemperatureDerate(i.battery, i.temp)
      total_draw ==
        IF i.model # "Custom Build" /\ p.power_system = "Hybrid"
        THEN HybridDrawPub(p.draw_watt, i.mode, i.speed, i.alt, total_weight_kg)
        ELSE MulDiv(TotalPowerDraw(HoverPower(total_weight_kg, i.alt), i.mode, i.speed, i.wind),
                    EfficiencyPenalty(i.payload, max_lift), 100)
      effect ==
        IF i.elev > 0 THEN 0 - PotentialEnergyWh(total_weight_kg, i.elev)
        ELSE IF i.elev < 0
             THEN MulDiv(PotentialEnergyWh(total_weight_kg, Abs(i.elev)), 2, 10)
             ELSE 0
      adjusted == derated + effect
      flight_time_minutes == Min(FlightTime(adjusted, total_draw), 120000)
      common == [NoResult EXCEPT !.max_lift = max_lift,
                                 !.elevation_effect = effect,
                                 !.total_weight = total_weight_kg,
                                 !.start_wh = i.battery,
                                 !.derated_wh = derated,
                                 !.battery_capacity_wh = adjusted,
                                 !.total_draw = total_draw,
                                 !.efficiency_penalty = EfficiencyPenalty(i.payload, max_lift)]
  IN  IF PayloadRejected(i.payload, max_lift)
      THEN [outcome |-> "payload_error", res |-> [NoResult EXCEPT !.max_lift = max_lift]]
      ELSE IF adjusted <= 0
      THEN [outcome |-> "aborted", res |-> common]
      ELSE [outcome |-> "reported",
            res |-> [common EXCEPT
                       !.flight_time_minutes = flight_time_minutes,
                       !.distance_km = IF i.mode # "Hover"
                                       THEN Distance(flight_time_minutes, i.speed) ELSE 0,
                       !.shown = IF i.mode # "Hover" THEN {"flight_time", "distance"}
                                 ELSE {"flight_time"}]]

\* battery_capacity_wh: number_input(min_value=1.0, max_value=1850.0)
BatteriesPub == {1000, 1850000}

\* the payloads at the load ratios 0.7 and 0.9 and the ones a gram below them
LoadRatioSteps(max_lift) ==
  {x \in {(7 * max_lift) \div 10, (7 * max_lift) \div 10 - 1,
          (9 * max_lift) \div 10, (9 * max_lift) \div 10 - 1} : x >= 0}

\* payload_weight_g: number_input(min_value=0), no maximum
PayloadsPub(drone_model) ==
  PayloadsUpTo(ProfilePub(drone_model).max_payload_g)
    \cup {ProfilePub(drone_model).max_payload_g + 1}
    \cup LoadRatioSteps(ProfilePub(drone_model).max_payload_g)

InputsPub ==
  { [NoInput EXCEPT !.model = mp[1], !.payload = mp[2], !.battery = b, !.speed = v,
                    !.wind = 10, !.temp = t, !.alt = a, !.elev = e, !.mode = fm] :
      mp \in UNION {{<<m, pl>> : pl \in PayloadsPub(m)} : m \in ModelsPub},
      b \in BatteriesPub, v \in Speeds, t \in Temperatures,
      a \in {2000}, e \in ElevationGains, fm \in FlightModes }

EstimatePub ==
  /\ variant = "published_final"
  /\ pc = "form"
  /\ \E i \in InputsPub :
       \E r \in {CalcPub(i)} : Run(i, r)

(***************************************************************************)
(* app.py                                                                  *)
(***************************************************************************)
UAV_PROFILES_app ==
  ( "Generic Quad" :> [max_payload_g |-> 800, base_weight_g |-> 1200,
                       power_system |-> "Battery", draw_watt |-> 170, battery_wh |-> 60000,
                       crash_risk |-> FALSE, max_speed_kmh |-> 80, max_altitude_m |-> 2000] ) @@
  ( "RQ-11 Raven"  :> [max_payload_g |-> 0, base_weight_g |-> 1900,
                       power_system |-> "Battery", draw_watt |-> 100, battery_wh |-> 50000,
                       crash_risk |-> FALSE, max_speed_kmh |-> 90, max_altitude_m |-> 4500] ) @@
  ( "MQ-1 Predator" :> [max_payload_g |-> 204000, base_weight_g |-> 512000,
                       power_system |-> "Hybrid", draw_watt |-> 900, battery_wh |-> 150000,
                       crash_risk |-> TRUE, max_speed_kmh |-> 217, max_altitude_m |-> 7500] ) @@
  ( "Teal Golden Eagle" :> [max_payload_g |-> 2000, base_weight_g |-> 2200,
                       power_system |-> "Hybrid", draw_watt |-> 300, battery_wh |-> 100000,
                       crash_risk |-> TRUE, max_speed_kmh |-> 93, max_altitude_m |-> 5000] )

\* the form's values for "Custom Build" (lines 25-37)
CustomBuildApp ==
  [max_payload_g |-> (4 * 1000) - 600 - 400, base_weight_g |-> 1200,
   power_system |-> "Custom", draw_watt |-> 0, battery_wh |-> 50000,
   crash_risk |-> FALSE, max_speed_kmh |-> 100, max_altitude_m |-> 5000]

ModelsApp == DOMAIN UAV_PROFILES_app \cup {"Custom Build"}

\* max_lift, base_weight_kg, max_speed_kmh, max_altitude_m as the form sets them
FormApp(drone_model) ==
  IF drone_model = "Custom Build" THEN CustomBuildApp ELSE UAV_PROFILES_app[drone_model]

\* Hybrid: base_draw * min((1 + 0.01 v + 0.001 alt/100) * (1 + 0.003 w), 2.2)
HybridDrawApp(base_draw, flight_speed_kmh, altitude_m, total_weight) ==
  LET drag_factor == 100000 + 1000 * flight_speed_kmh + altitude_m
      mass_penalty == 10000 + (3 * total_weight) \div 100
      capped == Min(MulDiv(drag_factor, mass_penalty, 10000), 220000)
  IN  MulDiv(capped, base_draw, 100)

\* the handler under `if submitted:` as a function of the submitted form;
\* UAV_PROFILES[drone_model] raises KeyError for "Custom Build"
CalcApp(i) ==
  LET f == FormApp(i.model)
      max_lift == f.max_payload_g
      known == i.model \in DOMAIN profiles
      total_weight_kg == f.base_weight_g + i.payload
      derated == TemperatureDerate(i.battery, i.temp)
      total_draw ==
        IF i.model # "Custom Build" /\ f.power_system = "Hybrid"
        THEN HybridDrawApp(f.draw_watt, i.speed, i.alt, total_weight_kg)
        ELSE MulDiv(TotalPowerDraw(HoverPower(total_weight_kg, i.alt), i.mode, i.speed, i.wind),
                    EfficiencyPenalty(i.payload, max_lift), 100)
      effect ==
        IF i.elev > 0 THEN 0 - PotentialEnergyWh(total_weight_kg, i.elev)
        ELSE IF i.elev < 0
             THEN MulDiv(PotentialEnergyWh(total_weight_kg, Abs(i.elev)), 2, 10)
             ELSE 0
      adjusted == derated + effect
      flight_time_minutes == Min(FlightTime(adjusted, total_draw), 120000)
      common == [NoResult EXCEPT !.max_lift = max_lift,
                                 !.elevation_effect = effect,
                                 !.total_weight = total_weight_kg,
                                 !.start_wh = i.battery,
                                 !.derated_wh = derated,
                                 !.battery_capacity_wh = adjusted,
                                 !.total_draw = total_draw]
  IN  IF PayloadRejectedApp(i.payload, max_lift)
      THEN [outcome |-> "payload_error", res |-> [NoResult EXCEPT !.max_lift = max_lift]]
      ELSE IF i.simulate_failure /\ ~known
      THEN [outcome |-> "unexpected_error", res |-> common]
      ELSE IF /\ i.simulate_failure /\ f.power_system = "Hybrid" /\ f.crash_risk
              /\ (i.temp > 35 \/ i.elev > 300 \/ (total_weight_kg > 100000 /\ i.wind > 20))
      THEN [outcome |-> "failure_simulated", res |-> common]
      ELSE IF adjusted <= 0
      THEN [outcome |-> "aborted", res |-> common]
      ELSE IF ~known
      THEN [outcome |-> "unexpected_error",
            res |-> [common EXCEPT !.flight_time_minutes = flight_time_minutes]]
      ELSE [outcome |-> "reported",
            res |-> [common EXCEPT
                       !.flight_time_minutes = flight_time_minutes,
                       !.total_steps = TotalSteps(flight_time_minutes),
                       !.battery_remaining =
                          BatteryRemaining(adjusted, total_draw, TotalSteps(flight_time_minutes)),
                       !.distance_km = IF i.mode # "Hover"
                                       THEN Distance(flight_time_minutes, i.speed) ELSE 0,
                       !.shown = IF i.mode # "Hover" THEN {"flight_time", "distance"}
                                 ELSE {"flight_time"}]]

\* battery_capacity_wh: number_input(min_value=1.0)
BatteriesApp == {1000, 1850000}

\* payload 0..int(max_lift), speed 0..max_speed_kmh, altitude 0..max_altitude_m
InputsApp ==
  { [NoInput EXCEPT !.model = mp[1], !.payload = mp[2], !.speed = mp[3], !.battery = b,
                    !.wind = w, !.temp = t, !.alt = a, !.elev = e, !.mode = fm,
                    !.simulate_failure = sf] :
      mp \in UNION {{<<m, pl, v>> : pl \in PayloadsUpTo(FormApp(m).max_payload_g),
                                    v \in {x \in Speeds : x <= FormApp(m).max_speed_kmh}} :
                    m \in ModelsApp},
      b \in BatteriesApp, w \in {10}, t \in Temperatures,
      a \in {0}, e \in ElevationGains, fm \in FlightModes, sf \in BOOLEAN }

EstimateApp ==
  /\ variant = "app"
  /\ pc = "form"
  /\ \E i \in InputsApp :
       \E r \in {CalcApp(i)} : Run(i, r)

(***************************************************************************)
(* uav_estimator_hybrid_graph_verified.py                                  *)
(***************************************************************************)
load_uav_profiles ==
  ( "Generic Quad" :> [max_payload_g |-> 800, base_weight_g |-> 1200,
                       power_system |-> "Battery", draw_watt |-> 150, battery_wh |-> 60000] ) @@
  ( "RQ-11 Raven"  :> [max_payload_g |-> 0, base_weight_g |-> 1900,
                       power_system |-> "Battery", draw_watt |-> 90, battery_wh |-> 50000] ) @@
  ( "MQ-1 Predator" :> [max_payload_g |-> 204000, base_weight_g |-> 512000,
                       power_system |-> "Hybrid", draw_watt |-> 650, battery_wh |-> 150000] ) @@
  ( "Teal Golden Eagle" :> [max_payload_g |-> 2000, base_weight_g |-> 2200,
                       power_system |-> "Hybrid", draw_watt |-> 220, battery_wh |-> 100000] )

hybrid_power_model(base_draw, phase, speed_kmh) ==
  IF phase = "Climb" THEN MulDiv(base_draw, 125, 100) + 10 * speed_kmh
  ELSE IF phase = "Cruise" THEN base_draw + 5 * speed_kmh
  ELSE IF phase = "Descent" THEN MulDiv(base_draw, 75, 100)
  ELSE base_draw

compute_power_draw(base_draw, power_system, flight_mode, speed_kmh) ==
  IF power_system = "Hybrid"
  THEN IF flight_mode = "Waypoint Mission" THEN hybrid_power_model(base_draw, "Climb", speed_kmh)
       ELSE IF flight_mode = "Forward Flight" THEN hybrid_power_model(base_draw, "Cruise", speed_kmh)
       ELSE IF flight_mode = "Hover" THEN hybrid_power_model(base_draw, "Descent", speed_kmh)
       ELSE base_draw
  ELSE IF power_system # "Battery" THEN base_draw
  ELSE IF flight_mode = "Hover" THEN MulDiv(base_draw, 110, 100)
  ELSE IF flight_mode = "Waypoint Mission"
       THEN MulDiv(base_draw, 115, 100) + 20 * speed_kmh * speed_kmh
       ELSE base_draw + 20 * speed_kmh * speed_kmh

apply_wind_drag(draw_watt, wind_speed_kmh, flight_speed_kmh, flight_mode, enabled) ==
  LET relative_speed == flight_speed_kmh - wind_speed_kmh
  IN  IF ~enabled \/ flight_mode = "Hover" THEN draw_watt
      ELSE IF relative_speed <= 0
           THEN MulDiv(draw_watt, 125, 100) + 30 * relative_speed * relative_speed
           ELSE IF wind_speed_kmh > 0
                THEN MulDiv(draw_watt, 95, 100) - 10 * wind_speed_kmh
                ELSE draw_watt

\* draw_watt = max(draw_watt, 0.1); (battery_wh / draw_watt) * 60
calculate_flight_time(battery_wh, draw_watt) == FlightTime(battery_wh, Max(draw_watt, 100))

\* the handler under `if submitted:` as a function of the submitted form
CalcHG(i) ==
  LET profile == profiles[i.model]
      max_lift == profile.max_payload_g
      total_weight_kg == profile.base_weight_g + i.payload
      derated == TemperatureDerate(i.battery, i.temp)
      draw == apply_wind_drag(
                compute_power_draw(profile.draw_watt * 1000, profile.power_system, i.mode, i.speed),
                i.wind, i.speed, i.mode, i.wind_effects_enabled)
      effect == compute_elevation_effect(total_weight_kg, i.elev)
      adjusted == Max(derated + effect, 100)
      flight_minutes == calculate_flight_time(adjusted, draw)
  IN  IF PayloadExceedsLift(i.payload, max_lift)
      THEN [outcome |-> "payload_error", res |-> [NoResult EXCEPT !.max_lift = max_lift]]
      ELSE [outcome |-> "reported",
            res |-> [NoResult EXCEPT
                       !.max_lift = max_lift,
                       !.total_weight = total_weight_kg,
                       !.start_wh = i.battery,
                       !.derated_wh = derated,
                       !.elevation_effect = effect,
                       !.battery_capacity_wh = adjusted,
                       !.total_draw = draw,
                       !.flight_time_minutes = flight_minutes,
                       !.distance_km = IF i.mode # "Hover"
                                       THEN Distance(flight_minutes, i.speed) ELSE 0,
                       !.shown = IF i.mode # "Hover" THEN {"flight_time", "distance"}
                                 ELSE {"flight_time"}]]

\* payload: st.slider(0, max_lift); battery: number_input(min_value=1.0, max_value=1850.0)
InputsHG ==
  { [NoInput EXCEPT !.model = mp[1], !.payload = mp[2], !.battery = b, !.speed = v,
                    !.wind = w[1], !.wind_effects_enabled = w[2], !.temp = t,
                    !.elev = e, !.mode = fm] :
      mp \in UNION {{<<m, pl>> : pl \in PayloadsUpTo(load_uav_profiles[m].max_payload_g)} :
                    m \in DOMAIN load_uav_profiles},
      b \in BatteriesPub, v \in Speeds,
      w \in {<<10, TRUE>>, <<10, FALSE>>},
      t \in Temperatures, e \in ElevationGains, fm \in FlightModes }

EstimateHG ==
  /\ variant = "hybrid_graph"
  /\ pc = "form"
  /\ \E i \in InputsHG :
       \E r \in {CalcHG(i)} : Run(i, r)

(***************************************************************************)
(* UAV_Battery_Estimator_FULL.py                                           *)
(* Factors and coefficients are in 1/10000 unless stated, areas in cm^2,   *)
(* the wingspan in cm, forces in mN, pressures in mPa, fuel in mL.         *)
(***************************************************************************)
UAV_PROFILES ==
  ( "Generic Quad" :> [type |-> "rotor", max_payload_g |-> 800, base_weight_g |-> 1200,
                       power_system |-> "Battery", draw_watt |-> 150, battery_wh |-> 60000,
                       rotor_WL_proxy |-> 450000,
                       wing_area_m2 |-> 0, wingspan_m |-> 0, cd0 |-> 0, oswald_e |-> 0,
                       prop_eff |-> 0, bsfc_gpkwh |-> 0, fuel_density_kgpl |-> 0,
                       fuel_tank_l |-> 0] ) @@
  ( "RQ-11 Raven"  :> [type |-> "fixed", max_payload_g |-> 0, base_weight_g |-> 1900,
                       power_system |-> "Battery", draw_watt |-> 90, battery_wh |-> 400000,
                       rotor_WL_proxy |-> 0,
                       wing_area_m2 |-> 2400, wingspan_m |-> 140, cd0 |-> 350,
                       oswald_e |-> 7500, prop_eff |-> 7200, bsfc_gpkwh |-> 0,
                       fuel_density_kgpl |-> 0, fuel_tank_l |-> 0] ) @@
  ( "RQ-20 Puma"   :> [type |-> "fixed", max_payload_g |-> 600, base_weight_g |-> 6300,
                       power_system |-> "Battery", draw_watt |-> 180, battery_wh |-> 600000,
                       rotor_WL_proxy |-> 0,
                       wing_area_m2 |-> 5500, wingspan_m |-> 280, cd0 |-> 400,
                       oswald_e |-> 7500, prop_eff |-> 7200, bsfc_gpkwh |-> 0,
                       fuel_density_kgpl |-> 0, fuel_tank_l |-> 0] ) @@
  ( "MQ-1 Predator" :> [type |-> "fixed", max_payload_g |-> 204000, base_weight_g |-> 512000,
                       power_system |-> "ICE", draw_watt |-> 650, battery_wh |-> 150000,
                       rotor_WL_proxy |-> 0,
                       wing_area_m2 |-> 115000, wingspan_m |-> 1480, cd0 |-> 250,
                       oswald_e |-> 8000, prop_eff |-> 8000, bsfc_gpkwh |-> 260,
                       fuel_density_kgpl |-> 7200, fuel_tank_l |-> 300000] )

\* min_airspeed_ms of each model, in mm/s
SPEC_BOOK ==
  ( "Generic Quad" :> 0 ) @@ ( "RQ-11 Raven" :> 10000 ) @@
  ( "RQ-20 Puma" :> 12000 ) @@ ( "MQ-1 Predator" :> 28000 )

\* "drag" of each stealth loadout, in 1/100
STEALTH_LOADOUTS ==
  ( "Clean" :> 100 ) @@ ( "Low Observable" :> 115 ) @@ ( "Heavy Stealth" :> 125 )

THERMAL_CAP_C == 80000
DEFAULT_EMISSIVITY == 8500
DEFAULT_MIN_AIRSPEED_MS == 8000
HOTEL_W_DEFAULT == 15000
USABLE_BATT_FRAC == 85
USABLE_FUEL_FRAC == 90
DISPATCH_RESERVE == 30

clamp_min_speed(drone_model, V_ms_cmd) ==
  LET V_min_ms == IF drone_model \in DOMAIN SPEC_BOOK THEN SPEC_BOOK[drone_model]
                  ELSE DEFAULT_MIN_AIRSPEED_MS
  IN  Max(V_ms_cmd, V_min_ms)

\* ISA density p / (R_AIR * T) in 1/10000 kg/m^3; the exponent G0/(R_AIR*LAPSE)
\* = 5.2559 of the pressure ratio is taken as 21/4
air_density(alt_m, sea_level_temp_C) ==
  LET T0 == sea_level_temp_C * 100 + 27315
      alt == IF alt_m < 0 THEN 0 ELSE alt_m
      T == Max(100, T0 - (65 * alt) \div 100)
      x == 10000 - MulDiv(65 * alt, 100, T0)
      x2 == MulDiv(x, x, 10000)
      x5 == MulDiv(MulDiv(x2, x2, 10000), x, 10000)
      xq == ISqrt(ISqrt(x * 10000) * 10000)
      ratio == MulDiv(x5, xq, 10000)
  IN  MulDiv(MulDiv(MulDiv(101325, 100000, 28705), 1000, T), ratio, 10000)

\* rho / RHO0
density_ratio(alt_m, sea_level_temp_C) ==
  MulDiv(air_density(alt_m, sea_level_temp_C), 10000, 12250)

\* 1.0 / max(0.3, math.sqrt(max(1e-4, rho_ratio)))
rotorcraft_density_scale(rho_ratio) ==
  MulDiv(10000, 10000, Max(3000, ISqrt(Max(1, rho_ratio) * 10000)))

\* cd0 + cl^2 / (pi * max(0.3, e) * max(2.0, AR)), in 1/1000000
drag_polar_cd(cd0, cl, e, aspect_ratio) ==
  LET pieAR == MulDiv(MulDiv(31416, Max(3000, e), 10000), Max(20000, aspect_ratio), 10000)
      k == MulDiv(1000000, 10000, pieAR)
  IN  cd0 * 100 + MulDiv(MulDiv(cl, cl, 10000), k, 10000)

\* shaft power from the drag polar, in mW
aero_power_required_W(weight_N, rho, V_ms_in, wing_area_m2, cd0, e, wingspan_m, prop_eff) ==
  LET V_ms == Max(1000, V_ms_in)
      q == MulDiv(MulDiv(V_ms, V_ms, 1000), rho, 20000)
      qS == MulDiv(q, Max(1, wing_area_m2), 10000)
      cl == MulDiv(weight_N, 10000, qS)
      AR == MulDiv(wingspan_m * wingspan_m, 10000, Max(1, wing_area_m2))
      cd == drag_polar_cd(cd0, cl, e, AR)
      D == MulDiv(MulDiv(q, wing_area_m2, 10000), cd, 1000000)
  IN  MulDiv(MulDiv(D, V_ms, 1000), 10000, Max(3000, prop_eff))

\* hotel_W + (1 + install_frac) * P_polar with the bounded coefficients
realistic_fixedwing_power(weight_N, rho, V_ms, wing_area_m2, wingspan_m, cd0, e, prop_eff, payload_drag_delta) ==
  LET CD0 == Max(500, cd0 + Max(0, payload_drag_delta))
      E_OSW == Min(7000, e)
      ETA_P == Min(6500, Max(5500, prop_eff))
      P_polar == aero_power_required_W(weight_N, rho, V_ms, wing_area_m2, CD0, E_OSW,
                                       wingspan_m, ETA_P)
  IN  HOTEL_W_DEFAULT + MulDiv(P_polar, 115, 100)

\* x ** 0.7 for x in 1/10000, as the product of the roots x^(1/2) x^(1/8)
\* x^(1/16) x^(1/128) x^(1/256)  (0.7 = 0.10110011..b)
Pow07(x) ==
  LET r2 == ISqrt(x * 10000)
      r4 == ISqrt(r2 * 10000)
      r8 == ISqrt(r4 * 10000)
      r16 == ISqrt(r8 * 10000)
      r32 == ISqrt(r16 * 10000)
      r64 == ISqrt(r32 * 10000)
      r128 == ISqrt(r64 * 10000)
      r256 == ISqrt(r128 * 10000)
  IN  MulDiv(MulDiv(MulDiv(MulDiv(r2, r8, 10000), r16, 10000), r128, 10000), r256, 10000)

\* the gust penalty without the ceiling of 0.35
gust_penalty_fraction_uncapped(gustiness_index, wind_kmh, V_ms_in, wing_loading_Nm2) ==
  LET gust_ms == Max(0, 600 * gustiness_index)
      V_ms == Max(3000, V_ms_in)
      WL == Max(250000, wing_loading_Nm2)
      g_over_V == MulDiv(gust_ms, 10000, V_ms)
      base == MulDiv(MulDiv(MulDiv(g_over_V, g_over_V, 10000), 15, 10),
                     Pow07(MulDiv(700000, 10000, WL)), 10000)
      wind_ms == Max(0, MulDiv(wind_kmh, 10000, 36))
      bias == MulDiv(wind_ms, 3, 80)
  IN  Max(0, base + bias)

\* fractional increase of the draw, 0 .. 0.35; wing loading in 1/10000 N/m^2
gust_penalty_fraction(gustiness_index, wind_kmh, V_ms_in, wing_loading_Nm2) ==
  LET gust_ms == Max(0, 600 * gustiness_index)
      V_ms == Max(3000, V_ms_in)
      WL == Max(250000, wing_loading_Nm2)
      g_over_V == MulDiv(gust_ms, 10000, V_ms)
      base == MulDiv(MulDiv(MulDiv(g_over_V, g_over_V, 10000), 15, 10),
                     Pow07(MulDiv(700000, 10000, WL)), 10000)
      wind_ms == Max(0, MulDiv(wind_kmh, 10000, 36))
      bias == MulDiv(wind_ms, 3, 80)
  IN  Max(0, Min(3500, base + bias))

\* (total_mass_kg * 9.81 * climb_m) / 3600.0, 0 for climb_m <= 0
climb_energy_wh(total_mass_kg, climb_m) ==
  IF climb_m <= 0 THEN 0 ELSE PotentialEnergyWh(total_mass_kg, climb_m)

\* the fuel burn with the fuel density taken as given, however small
bsfc_fuel_burn_lph_unfloored(power_W, bsfc_gpkwh, fuel_density_kgpl) ==
  MulDiv(MulDiv(power_W, bsfc_gpkwh, 1000), 10, Max(1, fuel_density_kgpl))

\* (bsfc / 1000) * (power_W / 1000) / max(0.5, fuel_density), in mL/h
bsfc_fuel_burn_lph(power_W, bsfc_gpkwh, fuel_density_kgpl) ==
  MulDiv(MulDiv(power_W, bsfc_gpkwh, 1000), 10, Max(5000, fuel_density_kgpl))

\* fuel for m g h through the same BSFC, in mL
climb_fuel_liters(total_mass_kg, climb_m, bsfc_gpkwh, fuel_density_kgpl) ==
  IF climb_m <= 0 THEN 0
  ELSE MulDiv(MulDiv(PotentialEnergyWh(total_mass_kg, climb_m), bsfc_gpkwh, 1000),
              10, Max(5000, fuel_density_kgpl))

\* the ranges with the upwind leg flown even against a wind faster than the aircraft
heading_range_km_upwind_flown(V_air_ms, W_ms, t_min) ==
  LET t == Max(0, t_min)
      km(v) == MulDiv(MulDiv(v, t, 1000), 36, 600)
  IN  IF V_air_ms <= 100 THEN <<0, 0>>
      ELSE <<km(V_air_ms + W_ms), km(Abs(V_air_ms - W_ms))>>

\* (best_km, worst_km) in m, from speeds in mm/s and minutes in 1/1000
heading_range_km(V_air_ms, W_ms, t_min) ==
  LET t == Max(0, t_min)
      km(v) == MulDiv(MulDiv(v, t, 1000), 36, 600)
  IN  IF V_air_ms <= 100 THEN <<0, 0>>
      ELSE IF W_ms >= V_air_ms THEN <<km(V_air_ms + W_ms), 0>>
      ELSE <<km(V_air_ms + W_ms), km(V_air_ms - W_ms)>>

\* radiating skin area in cm^2: 5 x or 4 x the wing area, 0.8 m^2 for a rotorcraft
estimate_skin_area(profile) ==
  IF profile.type = "fixed"
  THEN IF profile.power_system = "ICE" THEN 5 * profile.wing_area_m2
       ELSE 4 * profile.wing_area_m2
  ELSE 8000

\* the delta-T with the ceiling THERMAL_CAP_C left out
convective_radiative_deltaT_geom_uncapped(Q_shaft_W, hotel_W, surface_area_m2, emissivity, ambient_C, rho, V_ms_in, power_fraction_to_skin) ==
  LET V_ms == Max(500, V_ms_in)
      Q_skin == Max(0, MulDiv(Q_shaft_W, Max(0, power_fraction_to_skin), 10000)
                         + MulDiv(hotel_W, 60, 100))
      h_forced == 10450 - V_ms + 10 * ISqrt(V_ms * 1000)
      h == MulDiv(Max(6000, h_forced), rho, 12250)
      T_ambK == ambient_C * 100 + 27315
      rad_coeff == MulDiv(MulDiv(MulDiv(MulDiv(T_ambK, T_ambK, 10000), T_ambK, 100),
                                 emissivity, 10000),
                          22681, 10000) \div 10000
      sink_W_per_K == MulDiv(h + rad_coeff, surface_area_m2, 10000)
  IN  IF surface_area_m2 <= 0 \/ emissivity <= 0 THEN 0
      ELSE IF sink_W_per_K <= 0 THEN 0
      ELSE Max(200, MulDiv(Q_skin, 1000, sink_W_per_K))

\* steady-state delta-T of the skin above ambient, in 1/1000 degC; powers in mW,
\* h and rad_coeff in mW/(m^2 K), 4 * SIGMA = 2.2681e-7, emissivity and the
\* skin fraction in 1/10000
convective_radiative_deltaT_geom(Q_shaft_W, hotel_W, surface_area_m2, emissivity, ambient_C, rho, V_ms_in, power_fraction_to_skin) ==
  LET V_ms == Max(500, V_ms_in)
      Q_skin == Max(0, MulDiv(Q_shaft_W, Max(0, power_fraction_to_skin), 10000)
                         + MulDiv(hotel_W, 60, 100))
      h_forced == 10450 - V_ms + 10 * ISqrt(V_ms * 1000)
      h == MulDiv(Max(6000, h_forced), rho, 12250)
      T_ambK == ambient_C * 100 + 27315
      rad_coeff == MulDiv(MulDiv(MulDiv(MulDiv(T_ambK, T_ambK, 10000), T_ambK, 100),
                                 emissivity, 10000),
                          22681, 10000) \div 10000
      sink_W_per_K == MulDiv(h + rad_coeff, surface_area_m2, 10000)
  IN  IF surface_area_m2 <= 0 \/ emissivity <= 0 THEN 0
      ELSE IF sink_W_per_K <= 0 THEN 0
      ELSE Max(200, Min(THERMAL_CAP_C, MulDiv(Q_skin, 1000, sink_W_per_K)))

\* names bound on both branches before the detectability alert (line 858)
AssignedBoth ==
  {"wind_penalty_frac", "dispatch_endurance_min", "best_km", "worst_km", "delta_T",
   "ai_score", "ir_score", "overall_kind", "badges_html"}

\* names bound only by the ICE branch (lines 633-715)
AssignedICE ==
  {"P_req_W", "P_total_W", "lph", "climb_L_val", "usable_fuel_L", "raw_endurance_min"}

\* names bound only by the battery branch (lines 719-853)
AssignedBattery ==
  {"total_draw", "usable_Wh", "t_raw_min", "wind_penalty_pct", "flight_time_minutes",
   "climb_L", "total_distance_km"}

\* names the mission-performance section reads (lines 870-902)
ReadByMissionPerformance ==
  {"flight_time_minutes", "total_distance_km", "best_km", "worst_km", "wind_penalty_pct",
   "delta_T"}

\* mission multiplier of the draw: 1.05 / 1.08 or 1.10 / 1.10, in percent
ModeFactor(flight_mode, loiter_pct, hover_pct) ==
  IF flight_mode = "Waypoint Mission" THEN 105
  ELSE IF flight_mode = "Loiter" THEN loiter_pct
  ELSE IF flight_mode = "Hover" THEN hover_pct
  ELSE 100

\* V_ms if flight_mode != "Loiter" else max(8.0, 0.6 * V_ms)
LoiterSpeed(flight_mode, V_ms) ==
  IF flight_mode # "Loiter" THEN V_ms ELSE Max(8000, MulDiv(V_ms, 6, 10))

\* weight_N / max(0.05, wing_area_m2), in 1/10000 N/m^2
WingLoading(weight_N, wing_area_m2) == MulDiv(weight_N, 100000, Max(500, wing_area_m2))

\* total_draw *= terrain_penalty * stealth_drag_penalty
TerrainAndStealth(draw, i) ==
  MulDiv(MulDiv(draw, i.terrain_penalty, 100), STEALTH_LOADOUTS[i.stealth_choice], 100)

\* ICE branch, lines 634-665: required shaft power plus hotel load, in mW
IcePower(i, profile, weight_N, rho, V_ms_eff, wind_penalty_frac) ==
  HOTEL_W_DEFAULT
    + TerrainAndStealth(
        MulDiv(MulDiv(aero_power_required_W(weight_N, rho, V_ms_eff, profile.wing_area_m2,
                                            Max(500, profile.cd0),
                                            Min(7000, profile.oswald_e),
                                            profile.wingspan_m,
                                            Min(6500, Max(5500, profile.prop_eff))),
                      ModeFactor(i.mode, 110, 100), 100),
               10000 + wind_penalty_frac, 10000),
        i)

\* the assist with the requested duration kept whatever the pack holds
IceAssistNotShortened(i, profile, assist_power_W) ==
  LET requested_Wh == MulDiv(assist_power_W, i.assist_duration_min, 60)
      duration == i.assist_duration_min * 1000
  IN  [energy_Wh |-> requested_Wh,
       duration_min |-> duration,
       fuel_saved_L |-> MulDiv(bsfc_fuel_burn_lph(assist_power_W, profile.bsfc_gpkwh,
                                                  profile.fuel_density_kgpl),
                               duration, 60000)]

\* ICE branch, lines 680-690: the battery assist, given the assist power
IceAssist(i, profile, assist_power_W) ==
  LET requested_Wh == MulDiv(assist_power_W, i.assist_duration_min, 60)
      shortened == requested_Wh > profile.battery_wh
      duration == IF shortened
                  THEN MulDiv(profile.battery_wh, 60000, Max(1000, assist_power_W))
                  ELSE i.assist_duration_min * 1000
  IN  [energy_Wh |-> IF shortened THEN profile.battery_wh ELSE requested_Wh,
       duration_min |-> duration,
       fuel_saved_L |-> MulDiv(bsfc_fuel_burn_lph(assist_power_W, profile.bsfc_gpkwh,
                                                  profile.fuel_density_kgpl),
                               duration, 60000)]

\* ICE branch, lines 692-697: endurance and ranges from the usable fuel
IceEndurance(r, usable_fuel_L, V_ms_eff, W_ms) ==
  LET raw_endurance_min == MulDiv(usable_fuel_L, 60000, Max(50, r.lph))
      dispatch_endurance_min == MulDiv(raw_endurance_min, 100 - DISPATCH_RESERVE, 100)
  IN  [r EXCEPT !.usable_fuel_L = usable_fuel_L,
                !.raw_endurance_min = raw_endurance_min,
                !.dispatch_endurance_min = dispatch_endurance_min,
                !.best_km = heading_range_km(V_ms_eff, W_ms, dispatch_endurance_min)[1],
                !.worst_km = heading_range_km(V_ms_eff, W_ms, dispatch_endurance_min)[2]]

\* ICE branch, lines 667-690: fuel burn, climb fuel and assist, given the power
IceFuel(r, i, profile, P_total_W, wind_penalty_frac, assist, V_ms_eff, W_ms) ==
  IceEndurance(
    [r EXCEPT !.total_draw = P_total_W,
              !.V_ref_ms = V_ms_eff,
              !.wind_penalty_frac = wind_penalty_frac,
              !.lph = bsfc_fuel_burn_lph(P_total_W, profile.bsfc_gpkwh,
                                         profile.fuel_density_kgpl),
              !.assist_energy_Wh = IF i.hybrid_assist THEN assist.energy_Wh ELSE 0,
              !.assist_duration_min = IF i.hybrid_assist THEN assist.duration_min
                                      ELSE i.assist_duration_min * 1000,
              !.fuel_saved_L = IF i.hybrid_assist THEN assist.fuel_saved_L ELSE 0,
              !.assigned = AssignedBoth \cup AssignedICE],
    Max(0, MulDiv(profile.fuel_tank_l, USABLE_FUEL_FRAC, 100)
             - Max(0, climb_fuel_liters(r.total_weight, Max(0, i.elev),
                                        profile.bsfc_gpkwh, profile.fuel_density_kgpl)))
      + (IF i.hybrid_assist THEN assist.fuel_saved_L ELSE 0),
    V_ms_eff, W_ms)

\* ICE branch, line 682: assist_power_W = max(0, assist_fraction * P_total_W)
IceWithPower(r, i, profile, P_total_W, wind_penalty_frac, V_ms_eff, W_ms) ==
  IceFuel(r, i, profile, P_total_W, wind_penalty_frac,
          IceAssist(i, profile, Max(0, MulDiv(P_total_W, i.assist_fraction, 100))),
          V_ms_eff, W_ms)

\* ICE branch, lines 657-660: the gust penalty enters the required power
IceWithGust(r, i, profile, weight_N, rho, V_ms_eff, W_ms, wind_penalty_frac) ==
  IceWithPower(r, i, profile,
               IcePower(i, profile, weight_N, rho, V_ms_eff, wind_penalty_frac),
               wind_penalty_frac, V_ms_eff, W_ms)

\* the ICE branch (lines 633-715); ice_params hold the profile's defaults
IceBranch(r, i, profile, weight_N, rho, V_ms_eff, W_ms) ==
  IceWithGust(r, i, profile, weight_N, rho, V_ms_eff, W_ms,
              gust_penalty_fraction(i.gustiness, i.wind, V_ms_eff,
                                    WingLoading(weight_N, profile.wing_area_m2)))

\* rotor draw of the battery branch (lines 720-740), before terrain and stealth
RotorDraw(i, profile, total_weight_kg, rho_ratio, wind_penalty_frac) ==
  MulDiv(MulDiv(MulDiv(MulDiv(profile.draw_watt * 1000, total_weight_kg,
                              Max(100, profile.base_weight_g)),
                       rotorcraft_density_scale(rho_ratio), 10000)
                  + 18 * i.speed * i.speed,
                10000 + wind_penalty_frac, 10000),
         ModeFactor(i.mode, 108, 110), 100)

\* fixed-wing draw of the battery branch (lines 750-778), before terrain and stealth
FixedWingDraw(i, profile, weight_N, rho, V_ms_eff, wind_penalty_frac) ==
  MulDiv(MulDiv(realistic_fixedwing_power(weight_N, rho, V_ms_eff, profile.wing_area_m2,
                                          profile.wingspan_m, profile.cd0,
                                          profile.oswald_e, profile.prop_eff,
                                          IF i.payload > 0 THEN 20 ELSE 0),
                10000 + wind_penalty_frac, 10000),
         ModeFactor(i.mode, 110, 100), 100)

\* the battery endurance with no dispatch reserve withheld
BatteryEnduranceNoReserve(r, i, t_raw_min, W_ms) ==
  LET dispatch_endurance_min == t_raw_min
  IN  [r EXCEPT !.raw_endurance_min = t_raw_min,
                !.dispatch_endurance_min = dispatch_endurance_min,
                !.best_km = heading_range_km(r.V_ref_ms, W_ms, dispatch_endurance_min)[1],
                !.worst_km = heading_range_km(r.V_ref_ms, W_ms, dispatch_endurance_min)[2],
                !.flight_time_minutes = dispatch_endurance_min,
                !.distance_km = Distance(dispatch_endurance_min, i.speed),
                !.assigned = AssignedBoth \cup AssignedBattery]

\* battery branch, lines 802-809 and 842-847: endurance, ranges and distance
BatteryEndurance(r, i, t_raw_min, W_ms) ==
  LET dispatch_endurance_min == MulDiv(t_raw_min, 100 - DISPATCH_RESERVE, 100)
  IN  [r EXCEPT !.raw_endurance_min = t_raw_min,
                !.dispatch_endurance_min = dispatch_endurance_min,
                !.best_km = heading_range_km(r.V_ref_ms, W_ms, dispatch_endurance_min)[1],
                !.worst_km = heading_range_km(r.V_ref_ms, W_ms, dispatch_endurance_min)[2],
                !.flight_time_minutes = dispatch_endurance_min,
                !.distance_km = Distance(dispatch_endurance_min, i.speed),
                !.assigned = AssignedBoth \cup AssignedBattery]

\* battery branch, lines 790-806: terrain, stealth, climb/descent, usable energy
BatteryWithDraw(r, i, draw, V_ref_ms, wind_penalty_frac, effect, W_ms) ==
  BatteryEndurance(
    [r EXCEPT !.battery_capacity_wh = r.derated_wh + effect,
              !.elevation_effect = effect,
              !.total_draw = TerrainAndStealth(draw, i),
              !.V_ref_ms = V_ref_ms,
              !.wind_penalty_frac = wind_penalty_frac],
    i,
    FlightTime(MulDiv(Max(0, r.derated_wh + effect), USABLE_BATT_FRAC, 100),
               Max(5000, TerrainAndStealth(draw, i))),
    W_ms)

\* battery_capacity_wh -= climb energy / += 20% of the descent energy (lines 792-800)
ClimbDescentFULL(total_weight_kg, elevation_gain_m) ==
  IF elevation_gain_m > 0 THEN 0 - climb_energy_wh(total_weight_kg, elevation_gain_m)
  ELSE IF elevation_gain_m < 0
       THEN MulDiv(PotentialEnergyWh(total_weight_kg, Abs(elevation_gain_m)), 20, 100)
       ELSE 0

\* battery branch, rotor (lines 720-748), given the gust penalty
RotorBranch(r, i, profile, rho_ratio, W_ms, wind_penalty_frac) ==
  BatteryWithDraw(r, i, RotorDraw(i, profile, r.total_weight, rho_ratio, wind_penalty_frac),
                  r.V_ms, wind_penalty_frac, ClimbDescentFULL(r.total_weight, i.elev), W_ms)

\* battery branch, fixed wing (lines 750-787), given the gust penalty
FixedWingBranch(r, i, profile, weight_N, rho, V_ms_eff, W_ms, wind_penalty_frac) ==
  BatteryWithDraw(r, i,
                  FixedWingDraw(i, profile, weight_N, rho, V_ms_eff, wind_penalty_frac),
                  V_ms_eff, wind_penalty_frac, ClimbDescentFULL(r.total_weight, i.elev), W_ms)

\* the battery branch (lines 719-853)
BatteryBranch(r, i, profile, weight_N, rho, rho_ratio, W_ms) ==
  IF profile.type = "rotor"
  THEN RotorBranch(r, i, profile, rho_ratio, W_ms,
                   gust_penalty_fraction(i.gustiness, i.wind, r.V_ms, profile.rotor_WL_proxy))
  ELSE FixedWingBranch(r, i, profile, weight_N, rho, LoiterSpeed(i.mode, r.V_ms), W_ms,
                       gust_penalty_fraction(i.gustiness, i.wind, LoiterSpeed(i.mode, r.V_ms),
                                             WingLoading(weight_N, profile.wing_area_m2)))

\* lines 698-705 and 811-818: the thermal model of either branch, with the
\* shaft power P_req_W = P_total_W - HOTEL_W_DEFAULT (ICE) or
\* max(0, total_draw - HOTEL_W_DEFAULT) (battery), then the cloud-cover scaling
Thermal(r, i, profile, rho) ==
  CHOOSE with_delta_T \in
    { [b EXCEPT !.delta_T =
         MulDiv(convective_radiative_deltaT_geom(Max(0, b.total_draw - HOTEL_W_DEFAULT),
                                                 HOTEL_W_DEFAULT, estimate_skin_area(profile),
                                                 DEFAULT_EMISSIVITY, i.temp, rho, b.V_ref_ms, 800),
                1000 - 2 * i.cloud_cover, 1000)] : b \in {r} } : TRUE

\* lines 858-902: the output reads flight_time_minutes, total_distance_km, ...;
\* a NameError is caught by `except Exception` (line 1428)
MissionPerformance(r) ==
  IF ~(ReadByMissionPerformance \subseteq r.assigned)
  THEN [outcome |-> "unexpected_error",
        res |-> [r EXCEPT !.shown = {"air_density", "detectability"}]]
  ELSE [outcome |-> "reported",
        res |-> [r EXCEPT
                   !.shown = {"air_density", "delta_T", "power_draw", "detectability",
                              "flight_time", "distance", "best_range", "upwind_range"}]]

\* a pack that starts from the capacity the previous run ended with
ClampPackFromPreviousRun(i, profile) ==
  IF previous.ran THEN previous.res.battery_capacity_wh
  ELSE IF profile.power_system = "Battery"
  THEN Max(0, IF i.allow_pack_override THEN i.battery
              ELSE Min(i.battery, profile.battery_wh))
  ELSE i.battery

\* lines 571-575: the pack clamp, for battery-powered profiles only
ClampPack(i, profile) ==
  IF profile.power_system = "Battery"
  THEN Max(0, IF i.allow_pack_override THEN i.battery
              ELSE Min(i.battery, profile.battery_wh))
  ELSE i.battery

\* the values before the branches with the entered capacity used as typed
BeforeBranchEnteredPack(i, profile, clamped) ==
  [NoResult EXCEPT
     !.max_lift = profile.max_payload_g,
     !.total_weight = profile.base_weight_g + i.payload,
     !.start_wh = i.battery,
     !.derated_wh = IF profile.power_system = "Battery"
                    THEN TemperatureDerate(i.battery, i.temp) ELSE i.battery,
     !.battery_capacity_wh = IF profile.power_system = "Battery"
                             THEN TemperatureDerate(i.battery, i.temp) ELSE i.battery,
     !.V_ms = clamp_min_speed(i.model, Max(100, MulDiv(i.speed, 10000, 36)))]

\* lines 577-592: weight, airspeed and the derate of the clamped pack
BeforeBranch(i, profile, clamped) ==
  [NoResult EXCEPT
     !.max_lift = profile.max_payload_g,
     !.total_weight = profile.base_weight_g + i.payload,
     !.start_wh = clamped,
     !.derated_wh = IF profile.power_system = "Battery"
                    THEN TemperatureDerate(clamped, i.temp) ELSE clamped,
     !.battery_capacity_wh = IF profile.power_system = "Battery"
                             THEN TemperatureDerate(clamped, i.temp) ELSE clamped,
     !.V_ms = clamp_min_speed(i.model, Max(100, MulDiv(i.speed, 10000, 36)))]

\* lines 581-584 and the two branches, given the values bound before them
Branches(r, i, profile, weight_N, W_ms) ==
  IF profile.power_system = "ICE"
  THEN IceBranch(r, i, profile, weight_N, air_density(i.alt, i.temp),
                 LoiterSpeed(i.mode, r.V_ms), W_ms)
  ELSE BatteryBranch(r, i, profile, weight_N, air_density(i.alt, i.temp),
                     density_ratio(i.alt, i.temp), W_ms)

\* the handler under `if submitted:` (lines 565-902) as a function of the form
CalcFULL(i) ==
  IF PayloadRejected(i.payload, profiles[i.model].max_payload_g)
  THEN [outcome |-> "payload_error",
        res |-> [NoResult EXCEPT !.max_lift = profiles[i.model].max_payload_g]]
  ELSE MissionPerformance(
         Thermal(
           Branches(BeforeBranch(i, profiles[i.model], ClampPack(i, profiles[i.model])),
                    i, profiles[i.model],
                    MulDiv(profiles[i.model].base_weight_g + i.payload, 981, 100),
                    Max(0, MulDiv(i.wind, 10000, 36))),
           i, profiles[i.model], air_density(i.alt, i.temp)))

ModesFULL(drone_model) ==
  IF UAV_PROFILES[drone_model].type = "fixed"
  THEN {"Forward Flight", "Loiter", "Waypoint Mission"}
  ELSE {"Hover", "Forward Flight", "Loiter", "Waypoint Mission"}

\* numeric_input: any number typed into the text field
BatteriesFULL == {-5000, 100, 60000, 700000}

\* payload_weight_g = int(numeric_input(...)): any whole number typed in,
\* a negative one included
PayloadsFULL(drone_model) ==
  PayloadsUpTo(UAV_PROFILES[drone_model].max_payload_g)
    \cup {UAV_PROFILES[drone_model].max_payload_g + 1, -500}

\* assist_fraction slider 0.05..0.30 (in percent) and assist_duration_min slider
\* 1..30, shown for ICE profiles only
AssistSettings(drone_model) ==
  IF UAV_PROFILES[drone_model].power_system = "ICE" THEN {<<10, 10>>, <<5, 1>>}
  ELSE {<<10, 10>>}

InputsFULL ==
  { [NoInput EXCEPT !.model = mp[1], !.payload = mp[2], !.mode = mp[3], !.battery = b,
                    !.speed = v, !.wind = 10, !.temp = t, !.elev = e,
                    !.allow_pack_override = o[1], !.hybrid_assist = o[2],
                    !.assist_fraction = mp[4][1], !.assist_duration_min = mp[4][2]] :
      mp \in UNION {{<<m, pl, fm, a>> : pl \in PayloadsFULL(m), fm \in ModesFULL(m),
                                       a \in AssistSettings(m)} :
                    m \in DOMAIN UAV_PROFILES},
      b \in BatteriesFULL, v \in Speeds, t \in Temperatures, e \in ElevationGains,
      o \in {<<FALSE, FALSE>>, <<TRUE, TRUE>>} }

EstimateFULL ==
  /\ variant = "FULL"
  /\ pc = "form"
  /\ \E i \in InputsFULL :
       \E r \in {CalcFULL(i)} : Run(i, r)

(***************************************************************************)
(* The page after a run: the script is run again from the top and waits    *)
(* for the next submission with fresh variables.                           *)
(***************************************************************************)
\* the profile table each script builds at its top when it is started
TableOf(v) ==
  CASE v = "Final" -> UAV_PROFILES_Final
    [] v = "published_final" -> UAV_PROFILES_pub
    [] v = "app" -> UAV_PROFILES_app
    [] v = "hybrid_graph" -> load_uav_profiles
    [] OTHER -> UAV_PROFILES

Rerun ==
  /\ pc = "done"
  /\ pc' = "form"
  /\ inp' = NoInput
  /\ outcome' = "none"
  /\ res' = NoResult
  /\ profiles' = TableOf(variant)
  /\ UNCHANGED <<variant, previous>>

Variants == {"Final", "published_final", "app", "hybrid_graph", "FULL"}

Init ==
  /\ variant \in Variants
  /\ pc = "form"
  /\ inp = NoInput
  /\ outcome = "none"
  /\ res = NoResult
  /\ profiles = TableOf(variant)
  /\ previous = NoRun

Next ==
  \/ EstimateFinal
  \/ EstimatePub
  \/ EstimateApp
  \/ EstimateHG
  \/ EstimateFULL
  \/ Rerun

Spec == Init /\ [][Next]_vars

(***************************************************************************)
(* Direct calls of the helper functions.  The handlers reach the helpers   *)
(* only with the values of one form; here each helper is applied to        *)
(* arguments drawn from the whole range its callers can pass.  A call      *)
(* leaves its arguments in inp, its value in res and the way it ended in   *)
(* outcome.                                                                *)
(***************************************************************************)
AltitudeSteps == 6

\* altitude_m: number_input(min_value=0, max_value=5000)
Altitudes == {(k * 5000) \div AltitudeSteps : k \in 0..AltitudeSteps}

\* altitude_m of FULL: int(numeric_input(...)), any whole number typed in
AltitudesFULL == Altitudes \cup {11000, 44000, 50000}

\* (1.0 - (LAPSE*alt_m)/T0) < 0: a negative float raised to the power
\* G0/(R_AIR*LAPSE) = 5.2559 is a complex number in Python
PressureRatioIsComplex(alt_m, sea_level_temp_C) ==
  65 * (IF alt_m < 0 THEN 0 ELSE alt_m) > 100 * (sea_level_temp_C * 100 + 27315)

\* calculate_air_density_factor(altitude_m), the expression of line 69 of
\* published_final and line 75 of app
CallAirDensityFactor ==
  /\ variant = "helpers"
  /\ pc = "form"
  /\ \E altitude_m \in Altitudes :
       /\ inp' = [fn |-> "calculate_air_density_factor", altitude_m |-> altitude_m]
       /\ res' = [value |-> calculate_air_density_factor(altitude_m)]
  /\ outcome' = "returned"
  /\ pc' = "done"
  /\ UNCHANGED <<variant, profiles, previous>>

\* air_density(alt_m, sea_level_temp_C)
CallAirDensity ==
  /\ variant = "helpers"
  /\ pc = "form"
  /\ \E alt_m \in AltitudesFULL, sea_level_temp_C \in Temperatures :
       /\ inp' = [fn |-> "air_density", alt_m |-> alt_m,
                  sea_level_temp_C |-> sea_level_temp_C]
       /\ IF PressureRatioIsComplex(alt_m, sea_level_temp_C)
          THEN /\ outcome' = "returned_complex"
               /\ res' = [value |-> "complex"]
          ELSE /\ outcome' = "returned"
               /\ res' = [value |-> air_density(alt_m, sea_level_temp_C)]
  /\ pc' = "done"
  /\ UNCHANGED <<variant, profiles, previous>>

\* convective_radiative_deltaT_geom(...) with the hotel load and the skin
\* fraction its two callers pass (HOTEL_W_DEFAULT, 0.08)
CallDeltaT ==
  /\ variant = "helpers"
  /\ pc = "form"
  /\ \E Q_shaft_W \in {-1000000, 0, 100000, 30000000, 2000000000},
        surface_area_m2 \in {0, 8000, 9600, 575000},
        emissivity \in {-8500, 0, DEFAULT_EMISSIVITY},
        ambient_C \in {-40, 25, 50},
        rho \in {0, 3642, 12250},
        V_ms \in {0, 8333, 30000, 300000} :
       /\ inp' = [fn |-> "convective_radiative_deltaT_geom", Q_shaft_W |-> Q_shaft_W,
                  hotel_W |-> HOTEL_W_DEFAULT, surface_area_m2 |-> surface_area_m2,
                  emissivity |-> emissivity, ambient_C |-> ambient_C, rho |-> rho,
                  V_ms |-> V_ms, power_fraction_to_skin |-> 800]
       /\ res' = [value |-> convective_radiative_deltaT_geom(
                              Q_shaft_W, HOTEL_W_DEFAULT, surface_area_m2, emissivity,
                              ambient_C, rho, V_ms, 800)]
  /\ outcome' = "returned"
  /\ pc' = "done"
  /\ UNCHANGED <<variant, profiles, previous>>

\* shaft powers in mW, BSFC in g/kWh, fuel densities in 1/10000 kg/L
FuelPowers == {0, 1000000, 18610151, 100000000}
FuelBsfc == {260, 330}
FuelDensities == {3000, 5000, 7200, 8000}

\* bsfc_fuel_burn_lph(power_W, bsfc_gpkwh, fuel_density_kgpl)
CallFuelBurn ==
  /\ variant = "helpers"
  /\ pc = "form"
  /\ \E power_W \in FuelPowers, bsfc_gpkwh \in FuelBsfc, fuel_density_kgpl \in FuelDensities :
       /\ inp' = [fn |-> "bsfc_fuel_burn_lph", power_W |-> power_W,
                  bsfc_gpkwh |-> bsfc_gpkwh, fuel_density_kgpl |-> fuel_density_kgpl]
       /\ res' = [value |-> bsfc_fuel_burn_lph(power_W, bsfc_gpkwh, fuel_density_kgpl)]
  /\ outcome' = "returned"
  /\ pc' = "done"
  /\ UNCHANGED <<variant, profiles, previous>>

\* climb_fuel_liters(total_mass_kg, climb_m, bsfc_gpkwh, fuel_density_kgpl)
CallClimbFuel ==
  /\ variant = "helpers"
  /\ pc = "form"
  /\ \E total_mass_kg \in {512000, 716000}, climb_m \in ElevationGains \cup {500},
        bsfc_gpkwh \in FuelBsfc, fuel_density_kgpl \in FuelDensities :
       /\ inp' = [fn |-> "climb_fuel_liters", total_mass_kg |-> total_mass_kg,
                  climb_m |-> climb_m, bsfc_gpkwh |-> bsfc_gpkwh,
                  fuel_density_kgpl |-> fuel_density_kgpl]
       /\ res' = [value |-> climb_fuel_liters(total_mass_kg, climb_m, bsfc_gpkwh,
                                              fuel_density_kgpl)]
  /\ outcome' = "returned"
  /\ pc' = "done"
  /\ UNCHANGED <<variant, profiles, previous>>

InitCalls ==
  /\ variant \in Variants \cup {"helpers"}
  /\ pc = "form"
  /\ inp = NoInput
  /\ outcome = "none"
  /\ res = NoResult
  /\ profiles = TableOf(variant)
  /\ previous = NoRun

\* airspeeds, wind speeds (mm/s) and durations (1/1000 min) handed to
\* heading_range_km, the values on both sides of its tests included
RangeAirspeeds == {-1000, 0, 100, 101, 8000, 10000, 27778}
RangeWinds == {-2000, 0, 2778, 8000, 10000, 30000}
RangeMinutes == {-5000, 0, 642, 30000}

\* heading_range_km(V_air_ms, W_ms, t_min)
CallHeadingRange ==
  /\ variant = "helpers"
  /\ pc = "form"
  /\ \E V_air_ms \in RangeAirspeeds, W_ms \in RangeWinds, t_min \in RangeMinutes :
       /\ inp' = [fn |-> "heading_range_km", V_air_ms |-> V_air_ms, W_ms |-> W_ms,
                  t_min |-> t_min]
       /\ res' = [value |-> heading_range_km(V_air_ms, W_ms, t_min)]
  /\ outcome' = "returned"
  /\ pc' = "done"
  /\ UNCHANGED <<variant, profiles, previous>>

\* gust_penalty_fraction(gustiness_index, wind_kmh, V_ms, wing_loading_Nm2):
\* the slider's range and values outside it, a zero and a negative value of
\* every argument; the wing loading in 1/10000 N/m^2
CallGustPenalty ==
  /\ variant = "helpers"
  /\ pc = "form"
  /\ \E gustiness_index \in {-3, 0, 2, 10}, wind_kmh \in {-20, 0, 10, 200, 2000},
        V_ms \in {-1000, 0, 3000, 8000, 30000},
        wing_loading_Nm2 \in {-100000, 0, 250000, 450000, 700000, 5000000} :
       /\ inp' = [fn |-> "gust_penalty_fraction", gustiness_index |-> gustiness_index,
                  wind_kmh |-> wind_kmh, V_ms |-> V_ms,
                  wing_loading_Nm2 |-> wing_loading_Nm2]
       /\ res' = [value |-> gust_penalty_fraction(gustiness_index, wind_kmh, V_ms,
                                                  wing_loading_Nm2)]
  /\ outcome' = "returned"
  /\ pc' = "done"
  /\ UNCHANGED <<variant, profiles, previous>>

(***************************************************************************)
(* simulate_mission_phases of main.py (the function of hybrid_graph is the *)
(* same with hybrid_power_model called for a Hybrid profile).  Durations   *)
(* are in 1/1000 min, recorded timestamps in 1/1000 min, elapsed time in   *)
(* ms, battery levels in mWh, draws in mW.                                 *)
(***************************************************************************)
MaxPhases == 2

TIME_STEP == 10

\* draw of one phase: the power model, then the wind drag
PhaseDraw(phase, base_draw, power_system, wind_speed_kmh, wind_model) ==
  apply_wind_drag(
    IF power_system = "Hybrid" THEN hybrid_power_model(base_draw, phase.name, phase.speed_kmh)
    ELSE compute_power_draw(base_draw, power_system, phase.name, phase.speed_kmh),
    wind_speed_kmh, phase.speed_kmh, phase.name, wind_model)

\* steps = max(1, int(total_secs / TIME_STEP))
PhaseSteps(duration_min) == Max(1, (duration_min * 60) \div (TIME_STEP * 1000))

\* the samples of one phase appended to the three lists
PhaseSamples(out, total_elapsed, battery_wh, draw, steps) ==
  [timestamps |->
     out.timestamps \o [step \in 1..(steps + 1) |->
                          (total_elapsed + (step - 1) * TIME_STEP * 1000) \div 60],
   battery_levels |->
     out.battery_levels \o [step \in 1..(steps + 1) |->
                              Max(100, battery_wh - (step - 1) * MulDiv(draw, TIME_STEP, 3600))],
   draws |-> out.draws \o [step \in 1..(steps + 1) |-> draw]]

\* the loop over the phases from phase k on
RECURSIVE MissionLoop(_, _, _, _, _, _, _, _, _, _)
MissionLoop(phases, k, out, total_elapsed, battery_wh, base_draw, power_system, weight_kg, wind_speed_kmh, wind_model) ==
  IF k > Len(phases) THEN out
  ELSE LET draw == PhaseDraw(phases[k], base_draw, power_system, wind_speed_kmh, wind_model)
           started == Max(battery_wh + compute_elevation_effect(weight_kg, phases[k].elevation_m), 100)
           steps == PhaseSteps(phases[k].duration_min)
       IN  MissionLoop(phases, k + 1,
                       PhaseSamples(out, total_elapsed, started, draw, steps),
                       total_elapsed + phases[k].duration_min * 60,
                       started - steps * MulDiv(draw, TIME_STEP, 3600),
                       base_draw, power_system, weight_kg, wind_speed_kmh, wind_model)

simulate_mission_phases(phases, base_draw, power_system, battery_wh, weight_kg, wind_speed_kmh, wind_model) ==
  MissionLoop(phases, 1, [timestamps |-> <<>>, battery_levels |-> <<>>, draws |-> <<>>],
              0, battery_wh, base_draw, power_system, weight_kg, wind_speed_kmh, wind_model)

\* phases as the mission form builds them, and shorter than one time step
PhaseChoices ==
  [name : {"Climb", "Descent"}, duration_min : {100, 1000, 2000}, speed_kmh : {100},
   elevation_m : {0, 400}]

PhaseLists == UNION {[1..n -> PhaseChoices] : n \in 0..MaxPhases}

\* simulate_mission_phases(phases, base_draw, power_system, battery_wh, weight_kg,
\*                         wind_speed_kmh, wind_model, debug_mode)
CallSimulateMissionPhases ==
  /\ variant = "helpers"
  /\ pc = "form"
  /\ \E phases \in PhaseLists, power_system \in {"Battery", "Hybrid"},
        battery_wh \in {100, 150000} :
       /\ inp' = [fn |-> "simulate_mission_phases", phases |-> phases, base_draw |-> 160000,
                  power_system |-> power_system, battery_wh |-> battery_wh,
                  weight_kg |-> 1600, wind_speed_kmh |-> 15, wind_model |-> TRUE]
       /\ res' = [value |-> simulate_mission_phases(phases, 160000, power_system, battery_wh,
                                                    1600, 15, TRUE)]
  /\ outcome' = "returned"
  /\ pc' = "done"
  /\ UNCHANGED <<variant, profiles, previous>>

NextCalls ==
  \/ Next
  \/ CallAirDensityFactor
  \/ CallAirDensity
  \/ CallDeltaT
  \/ CallFuelBurn
  \/ CallClimbFuel
  \/ CallHeadingRange
  \/ CallGustPenalty
  \/ CallSimulateMissionPhases

SpecCalls == InitCalls /\ [][NextCalls]_vars

(***************************************************************************)
(* The same form submitted twice.  After a run the page is shown again     *)
(* with the widgets still holding the submitted values; pressing Estimate  *)
(* without editing them runs the handler on the same form.                 *)
(***************************************************************************)
VariantsTwice == {"published_final", "FULL"}

\* the rerun of the script; the run just shown is kept as history
ShowAgain ==
  /\ pc = "done"
  /\ previous' = [ran |-> TRUE, inp |-> inp, outcome |-> outcome, res |-> res]
  /\ pc' = "again"
  /\ inp' = NoInput
  /\ outcome' = "none"
  /\ res' = NoResult
  /\ profiles' = TableOf(variant)
  /\ UNCHANGED variant

\* Estimate pressed on the unedited form
EstimateAgain ==
  /\ pc = "again"
  /\ \E r \in {IF variant = "FULL" THEN CalcFULL(previous.inp)
                ELSE CalcPub(previous.inp)} : Run(previous.inp, r)

InitTwice ==
  /\ variant \in VariantsTwice
  /\ pc = "form"
  /\ inp = NoInput
  /\ outcome = "none"
  /\ res = NoResult
  /\ profiles = TableOf(variant)
  /\ previous = NoRun

NextTwice ==
  \/ EstimatePub
  \/ EstimateFULL
  \/ ShowAgain
  \/ EstimateAgain

SpecTwice == InitTwice /\ [][NextTwice]_vars

(***************************************************************************)
(* The swarm advisor of FULL (lines 1079-1383).  The handler seeds a swarm *)
(* of the selected platform, runs swarm_steps rounds (every agent proposes,*)
(* the lead fuses the proposals into an action list, apply_actions carries *)
(* the list out) and then plays the mission back for `timesteps` steps.    *)
(* The handler reaches this section with battery profiles only (an ICE run *)
(* ends at line 866); the functions take any platform and are applied here *)
(* to every profile name.  One action is one round or one playback step.   *)
(*                                                                         *)
(* Units: endurance 1/10 min, positions 1/100 km, speeds 1/10 km/h,        *)
(* temperatures 1/10 degC, assist fractions in percent.  Of AgentState the *)
(* fields role and battery_wh (never written after seeding) and fuel_l     *)
(* (written, never read by any test) are left out.  In this specification  *)
(* inp holds the environment of the run and res the swarm.                 *)
(***************************************************************************)
ALLOWED_ACTIONS ==
  {"RTB", "LOITER", "HANDOFF_TRACK", "RELOCATE", "ALTITUDE_CHANGE", "SPEED_CHANGE",
   "RELAY_COMMS", "STANDBY", "HYBRID_ASSIST"}

\* swarm_steps = st.slider("Swarm Conversation Rounds", 1, 5, 2)
SwarmSteps == {1, 2}

\* timesteps = 10
timesteps == 10

\* ("MQ-1" in s.platform or "MQ-9" in s.platform): of the profile names the
\* ones that hold either text; line 1366 tests membership of the same list
IsMQ(platform) == platform \in {"MQ-1 Predator", "MQ-9 Reaper"}

\* swarm_size = 2 (the slider's minimum): the ids seed_swarm hands out
SwarmIds == {"UAV_1", "UAV_2"}

\* floor of the square root
RECURSIVE Isqrt(_)
Isqrt(n) ==
  IF n < 2 THEN n
  ELSE LET r == 2 * Isqrt(n \div 4)
       IN IF (r + 1) * (r + 1) <= n THEN r + 1 ELSE r

\* in_zone(s): (s.x_km**2 + s.y_km**2)**0.5 <= threat_zone_km
in_zone(s, threat_zone_km) ==
  s.x_km * s.x_km + s.y_km * s.y_km <= threat_zone_km * threat_zone_km

\* the position seed_swarm draws for an agent, random.uniform(-1,1) on each
\* axis: one agent within a 1 km zone, the other outside it
SeedPosition(id) == IF id = "UAV_1" THEN <<30, -40>> ELSE <<-100, 100>>

\* AgentState as seed_swarm builds it; u is the draw of
\* random.uniform(0.7,1.1) in tenths, the other draws are fixed:
\* speed 30 km/h, altitude_m_ref + 0, delta_T_ref * 1.0
AgentState(id, platform, u, base_endurance, delta_T_ref, altitude_m_ref) ==
  [id |-> id, platform |-> platform,
   endurance_min |-> (u * Max(50, base_endurance)) \div 10,
   speed_kmh |-> 300, altitude_m |-> altitude_m_ref,
   x_km |-> SeedPosition(id)[1], y_km |-> SeedPosition(id)[2],
   delta_T |-> delta_T_ref,
   hybrid_assist |-> FALSE, assist_fraction |-> 0, assist_time_min |-> 0,
   waypoints |-> <<>>, current_wp |-> 0, warning |-> ""]

\* seed_swarm(n, base_endurance, base_batt_wh, delta_T_ref, altitude_m_ref,
\* platform); draws[id] is the agent's endurance draw
seed_swarm(draws, base_endurance, delta_T_ref, altitude_m_ref, platform) ==
  [id \in SwarmIds |->
     AgentState(id, platform, draws[id], base_endurance, delta_T_ref, altitude_m_ref)]

\* agent_call(env, s) without the LLM (lines 1185-1188)
agent_call(env, s) ==
  IF env.threat_note = "elevated" /\ IsMQ(s.platform)
  THEN [proposed_action |-> "HYBRID_ASSIST", fraction |-> 15, duration_min |-> 10]
  ELSE [proposed_action |-> "LOITER", fraction |-> 0, duration_min |-> 0]

\* an entry of an action list, with the parameters an action reads
Act(uav_id, action) ==
  [uav_id |-> uav_id, action |-> action, fraction |-> -1, duration_min |-> -1,
   dx_km |-> 0, dy_km |-> 0, delta_m |-> 0, delta_kmh |-> 0]

\* the entry of the fallback fusion for one agent (lines 1206-1214)
FusedAction(s, prop) ==
  IF prop.proposed_action = "HYBRID_ASSIST" /\ IsMQ(s.platform)
  THEN [Act(s.id, "HYBRID_ASSIST") EXCEPT !.fraction = 15, !.duration_min = 10]
  ELSE IF s.endurance_min < 80
  THEN Act(s.id, "RTB")
  ELSE Act(s.id, "LOITER")

\* lead_call(env, swarm, proposals) without the LLM: one entry for each agent,
\* in the order of the swarm
lead_call(env, swarm, proposals) ==
  << FusedAction(swarm["UAV_1"], proposals["UAV_1"]),
     FusedAction(swarm["UAV_2"], proposals["UAV_2"]) >>

\* the body of apply_actions' loop for one entry a of agent s (lines
\* 1238-1256); a missing fraction is 0.10 and a missing duration 8; draw is
\* random.uniform(0.5, 1.5)
ApplyAction(s, a, draw) ==
  [(IF a.action = "HYBRID_ASSIST" /\ IsMQ(s.platform)
    THEN [s EXCEPT !.hybrid_assist = TRUE,
                   !.assist_fraction = IF a.fraction < 0 THEN 10 ELSE a.fraction,
                   !.assist_time_min = IF a.duration_min < 0 THEN 8 ELSE a.duration_min,
                   !.delta_T = MulDiv(s.delta_T,
                                      1000 - 7 * (IF a.fraction < 0 THEN 10 ELSE a.fraction),
                                      1000),
                   !.warning = "Hybrid Assist"]
    ELSE IF a.action = "RTB"
    THEN [s EXCEPT !.warning = "RTB ordered", !.speed_kmh = Max(150, s.speed_kmh)]
    ELSE IF a.action = "LOITER"
    THEN [s EXCEPT !.speed_kmh = Max(100, (s.speed_kmh * 9) \div 10)]
    ELSE IF a.action = "RELOCATE"
    THEN [s EXCEPT !.x_km = s.x_km + a.dx_km, !.y_km = s.y_km + a.dy_km]
    ELSE IF a.action = "ALTITUDE_CHANGE"
    THEN [s EXCEPT !.altitude_m = s.altitude_m + a.delta_m]
    ELSE IF a.action = "SPEED_CHANGE"
    THEN [s EXCEPT !.speed_kmh = s.speed_kmh + a.delta_kmh]
    ELSE IF a.action = "RELAY_COMMS"
    THEN [s EXCEPT !.warning = "Relay"]
    ELSE s)
   EXCEPT !.endurance_min = Max(0, s.endurance_min - draw)]

\* the loop of apply_actions from entry k on; an entry of an unknown uav_id
\* is skipped
RECURSIVE ApplyList(_, _, _, _)
ApplyList(swarm, acts, draws, k) ==
  IF k > Len(acts) THEN swarm
  ELSE IF acts[k].uav_id \notin DOMAIN swarm THEN ApplyList(swarm, acts, draws, k + 1)
  ELSE ApplyList([swarm EXCEPT ![acts[k].uav_id] =
                                 ApplyAction(swarm[acts[k].uav_id], acts[k], draws[k])],
                 acts, draws, k + 1)

\* the automatic assist given to every agent inside the zone
AutoAssistAnyPlatform(s, stealth_ingress, threat_zone_km) ==
  IF stealth_ingress /\ in_zone(s, threat_zone_km) /\ ~s.hybrid_assist
  THEN [s EXCEPT !.hybrid_assist = TRUE, !.assist_fraction = 15, !.assist_time_min = 10,
                 !.delta_T = MulDiv(s.delta_T, 895, 1000),
                 !.warning = "Auto Hybrid Assist (Stealth Ingress)"]
  ELSE s

\* lines 1257-1262: the automatic assist of stealth ingress
AutoAssist(s, stealth_ingress, threat_zone_km) ==
  IF stealth_ingress /\ IsMQ(s.platform) /\ in_zone(s, threat_zone_km) /\ ~s.hybrid_assist
  THEN [s EXCEPT !.hybrid_assist = TRUE, !.assist_fraction = 15, !.assist_time_min = 10,
                 !.delta_T = MulDiv(s.delta_T, 895, 1000),
                 !.warning = "Auto Hybrid Assist (Stealth Ingress)"]
  ELSE s

\* apply_actions(swarm, acts, stealth_ingress, threat_zone_km)
apply_actions(swarm, acts, draws, stealth_ingress, threat_zone_km) ==
  LET done == ApplyList(swarm, acts, draws, 1)
  IN [id \in DOMAIN swarm |-> AutoAssist(done[id], stealth_ingress, threat_zone_km)]

\* move_towards(s, target, step_km = 0.5); dist > 0 holds wherever dist is
\* not below the step
move_towards(s, target) ==
  LET dx == target[1] - s.x_km
      dy == target[2] - s.y_km
      dist == Isqrt(dx * dx + dy * dy)
  IN IF dx * dx + dy * dy < 50 * 50
     THEN [s EXCEPT !.x_km = target[1], !.y_km = target[2],
                    !.current_wp = Min(s.current_wp + 1, Len(s.waypoints) - 1)]
     ELSE [s EXCEPT !.x_km = s.x_km + MulDiv(dx, 50, dist),
                    !.y_km = s.y_km + MulDiv(dy, 50, dist)]

\* the body of the playback loop for one agent (lines 1360-1368); draw is
\* random.uniform(0.5, 1.0)
PlaybackAgent(s, draw, stealth_ingress, threat_zone_km) ==
  LET moved == IF Len(s.waypoints) > 0 /\ s.current_wp < Len(s.waypoints)
               THEN move_towards(s, s.waypoints[s.current_wp + 1])
               ELSE s
      flown == [moved EXCEPT !.endurance_min = Max(0, moved.endurance_min - draw)]
  IN IF stealth_ingress /\ flown.platform \in {"MQ-1 Predator", "MQ-9 Reaper"}
          /\ in_zone(flown, threat_zone_km)
     THEN [flown EXCEPT !.hybrid_assist = TRUE, !.assist_fraction = 15,
                        !.assist_time_min = 10,
                        !.delta_T = MulDiv(flown.delta_T, 895, 1000),
                        !.warning = "Auto Hybrid Assist (Stealth Ingress)"]
     ELSE flown

\* base_endurance = max(5.0, flight_time_minutes): a flight shorter than the
\* floor and one of ten minutes
BaseEndurances == {20, 100}

\* the draws of random.uniform(0.7,1.1) for the two agents' endurance
SeedDraws == {[id \in SwarmIds |-> IF id = low THEN 7 ELSE 11] : low \in SwarmIds}

\* delta_T of the run; threat_note is "elevated" above 15 degC
SwarmDeltaTs == {100, 200}

\* threat_zone_km = st.slider("Threat Zone Radius (km)", 1.0, 20.0, 5.0)
ThreatZones == {100}

\* the waypoints of the text area's default
WaypointLists == {<< <<200, 200>>, <<500, 0>>, <<800, -300>> >>}

\* random.uniform(0.5, 1.5) of apply_actions, at either end, and
\* random.uniform(0.5, 1.0) of the playback loop, at its upper end (no test
\* reads the endurance once the rounds are over)
RoundDraws == {5, 15}
PlaybackDraws == {10}

\* action lists the lead LLM can return: none; an assist for either agent,
\* one with and one without parameters; relocations into and out of the
\* zone followed by an assist; the other actions; entries of an agent that
\* does not exist and of an action outside ALLOWED_ACTIONS; the list of the
\* LLM error fallback
LeadLists ==
  { <<>>,
    << [Act("UAV_1", "HYBRID_ASSIST") EXCEPT !.fraction = 30, !.duration_min = 5],
       Act("UAV_2", "HYBRID_ASSIST") >>,
    << [Act("UAV_2", "RELOCATE") EXCEPT !.dx_km = 100, !.dy_km = -100],
       Act("UAV_2", "HYBRID_ASSIST"),
       [Act("UAV_1", "RELOCATE") EXCEPT !.dx_km = 150, !.dy_km = 0] >>,
    << [Act("UAV_1", "ALTITUDE_CHANGE") EXCEPT !.delta_m = 50],
       [Act("UAV_2", "SPEED_CHANGE") EXCEPT !.delta_kmh = -50],
       Act("UAV_1", "RELAY_COMMS"), Act("UAV_2", "RTB") >>,
    << Act("UAV_9", "HYBRID_ASSIST"), Act("UAV_1", "SELF_DESTRUCT"),
       Act("UAV_2", "HANDOFF_TRACK"), Act("UAV_2", "STANDBY") >>,
    << Act("UAV_1", "LOITER"), Act("UAV_2", "LOITER") >> }

\* lines 1293-1314: the swarm is seeded and the environment is built
SeedSwarm ==
  /\ variant = "FULL"
  /\ pc = "form"
  /\ \E platform \in DOMAIN UAV_PROFILES, base_endurance \in BaseEndurances,
        delta_T \in SwarmDeltaTs, stealth_ingress \in BOOLEAN,
        threat_zone_km \in ThreatZones, swarm_steps \in SwarmSteps,
        waypoints \in WaypointLists, llm \in BOOLEAN, draws \in SeedDraws :
       /\ inp' = [platform |-> platform,
                  threat_note |-> IF delta_T > 150 THEN "elevated" ELSE "normal",
                  stealth_ingress |-> stealth_ingress, threat_zone_km |-> threat_zone_km,
                  swarm_steps |-> swarm_steps, OPENAI_AVAILABLE |-> llm]
       /\ \E seeded \in {seed_swarm(draws, base_endurance, delta_T, 50, platform)} :
            res' = [swarm |-> [id \in SwarmIds |-> [seeded[id] EXCEPT !.waypoints = waypoints]],
                    seen |-> seeded, acts |-> <<>>, round |-> 0, t |-> 0]
  /\ pc' = "round"
  /\ UNCHANGED <<variant, outcome, profiles, previous>>

\* one round of lines 1316-1336: the proposals, the fusion, apply_actions;
\* seen is the swarm as lead_call was given it
SwarmRound ==
  /\ pc = "round"
  /\ \E acts \in (IF inp.OPENAI_AVAILABLE THEN LeadLists
                   ELSE {lead_call(inp, res.swarm,
                                   [id \in SwarmIds |-> agent_call(inp, res.swarm[id])])}) :
       \E draws \in [1..Len(acts) -> RoundDraws] :
         res' = [res EXCEPT
                   !.swarm = IF acts = <<>> THEN @
                             ELSE apply_actions(@, acts, draws, inp.stealth_ingress,
                                                inp.threat_zone_km),
                   !.seen = res.swarm, !.acts = acts, !.round = @ + 1]
  /\ pc' = IF res.round + 1 = inp.swarm_steps THEN "playback" ELSE "round"
  /\ UNCHANGED <<variant, inp, outcome, profiles, previous>>

\* one pass of the playback loop (lines 1358-1370)
PlaybackStep ==
  /\ pc = "playback"
  /\ res.t < timesteps
  /\ \E draws \in [SwarmIds -> PlaybackDraws] :
       res' = [res EXCEPT
                 !.swarm = [id \in SwarmIds |->
                              PlaybackAgent(@[id], draws[id], inp.stealth_ingress,
                                            inp.threat_zone_km)],
                 !.t = @ + 1]
  /\ pc' = IF res.t + 1 = timesteps THEN "shown" ELSE "playback"
  /\ UNCHANGED <<variant, inp, outcome, profiles, previous>>

InitSwarm ==
  /\ variant = "FULL"
  /\ pc = "form"
  /\ inp = NoInput
  /\ outcome = "none"
  /\ res = NoResult
  /\ profiles = TableOf(variant)
  /\ previous = NoRun

NextSwarm ==
  \/ SeedSwarm
  \/ SwarmRound
  \/ PlaybackStep

SpecSwarm == InitSwarm /\ [][NextSwarm]_vars

(***************************************************************************)
(* Properties of the estimators.                                           *)
(***************************************************************************)

\* C1: in FULL, published_final and app an Estimate whose payload exceeds the
\* profile's maximum ends with the payload error and produces no flight
\* time, distance or power draw, whatever the profile's maximum is.
C1_PayloadOverMaxRejected ==
  (pc = "done" /\ variant \in {"FULL", "published_final", "app"}
     /\ inp.payload > res.max_lift)
  => /\ outcome = "payload_error"
     /\ res.shown = {}
     /\ res.flight_time_minutes = 0
     /\ res.distance_km = 0
     /\ res.total_draw = 0

C1_Witness ==
  /\ pc = "done"
  /\ variant \in {"FULL", "published_final"}
  /\ res.max_lift > 0
  /\ inp.payload = res.max_lift + 1
  /\ outcome = "payload_error"

\* C2: an Estimate whose payload equals the profile's maximum is not rejected
\* by the payload check; the power draw is computed and, unless the battery
\* check stops the run first, so is the flight time (the endurance on the
\* ICE branch of FULL).  This includes the profiles whose maximum is 0.
C2_PayloadAtMaxAccepted ==
  (pc = "done" /\ variant \in {"FULL", "published_final", "hybrid_graph"}
     /\ inp.payload = res.max_lift)
  => /\ outcome # "payload_error"
     /\ res.total_draw > 0
     /\ outcome # "aborted"
          => ("flight_time" \in res.shown \/ "raw_endurance_min" \in res.assigned)

C2_Witness ==
  /\ pc = "done"
  /\ variant = "hybrid_graph"
  /\ inp.payload = res.max_lift
  /\ res.max_lift = 0
  /\ outcome = "reported"
  /\ "flight_time" \in res.shown

\* C3: in Final, published_final and app no flight time is reported when the
\* battery capacity after the derate and the climb/descent adjustment is
\* <= 0, for every elevation gain and every battery input.
C3_NoFlightTimeOnEmptyBattery ==
  (pc = "done" /\ variant \in {"Final", "published_final", "app"}
     /\ outcome # "payload_error" /\ res.battery_capacity_wh <= 0)
  => "flight_time" \notin res.shown

\* C4: on the battery branch of FULL and in hybrid_graph, a climb whose energy
\* exceeds the derated battery capacity is reported as a failure and no
\* endurance value is produced.
C4_ClimbBeyondBatteryIsFailure ==
  (pc = "done" /\ variant \in {"FULL", "hybrid_graph"}
     /\ outcome # "payload_error"
     /\ (variant = "FULL" => UAV_PROFILES[inp.model].power_system = "Battery")
     /\ inp.elev > 0
     /\ MulDiv(MulDiv(res.total_weight, 981, 100), inp.elev, 3600) > res.derated_wh)
  => /\ outcome # "reported"
     /\ "flight_time" \notin res.shown

\* C5: in FULL every accepted Estimate, on the ICE branch as on the battery
\* branch, reaches the mission-performance output with every name it reads
\* assigned; none ends in the 'Unexpected error during simulation' handler.
C5_AcceptedEstimateReachesOutput ==
  (pc = "done" /\ variant = "FULL" /\ outcome # "payload_error")
  => /\ outcome = "reported"
     /\ ReadByMissionPerformance \subseteq res.assigned

\* C6: with the other inputs fixed, a lighter payload within [0, max] never
\* gives a shorter reported flight time than a heavier one (published_final,
\* hybrid_graph, battery branch of FULL; every profile, mode, elevation gain).
C6_HeavierPayloadNeverLonger ==
  (pc = "done" /\ variant \in {"published_final", "hybrid_graph", "FULL"}
     /\ outcome = "reported")
  => \A lighter \in {p \in PayloadsUpTo(res.max_lift) : p < inp.payload} :
       LET j == [inp EXCEPT !.payload = lighter]
           r == IF variant = "published_final" THEN CalcPub(j)
                ELSE IF variant = "hybrid_graph" THEN CalcHG(j)
                ELSE CalcFULL(j)
       IN  r.outcome = "reported"
             => r.res.flight_time_minutes >= res.flight_time_minutes

\* C7: of two Estimates that differ only in the temperature, 10 against 25,
\* the 10-degree run reports a flight time less than or equal to that of the
\* 25-degree run (published_final, FULL).
C7_ColderNeverLonger ==
  (pc = "done" /\ variant \in {"published_final", "FULL"}
     /\ outcome = "reported" /\ inp.temp = 10)
  => LET j == [inp EXCEPT !.temp = 25]
         r == IF variant = "published_final" THEN CalcPub(j) ELSE CalcFULL(j)
     IN  r.outcome = "reported"
           => res.flight_time_minutes <= r.res.flight_time_minutes

C9_ClimbDescentAdjustment ==
  (pc = "done" /\ variant \in {"published_final", "hybrid_graph", "FULL"}
     /\ outcome # "payload_error"
     /\ (variant = "FULL" => UAV_PROFILES[inp.model].power_system = "Battery"))
  => LET height == IF inp.elev < 0 THEN 0 - inp.elev ELSE inp.elev
         charge == MulDiv(MulDiv(res.total_weight, 981, 100), height, 3600)
     IN  /\ inp.elev > 0 => res.elevation_effect = 0 - charge
         /\ inp.elev < 0 => res.elevation_effect = MulDiv(charge, 20, 100)
         /\ inp.elev = 0 => res.elevation_effect = 0
         /\ variant # "hybrid_graph"
              => res.battery_capacity_wh = res.derated_wh + res.elevation_effect

C9_Witness ==
  /\ pc = "done"
  /\ variant = "published_final"
  /\ outcome = "reported"
  /\ inp.elev < 0
  /\ inp.payload > 0
  /\ res.elevation_effect > 0
  /\ res.battery_capacity_wh > res.derated_wh

\* C10: a reported distance equals (reported flight time / 60) x the speed
\* entered, the flight time being the one shown: after the 120-minute cap in
\* published_final and app, after the dispatch reserve in FULL.
C10_DistanceFromReportedTime ==
  (pc = "done" /\ variant \in {"published_final", "app", "FULL"}
     /\ "distance" \in res.shown)
  => /\ "flight_time" \in res.shown
     /\ res.distance_km = (res.flight_time_minutes * inp.speed) \div 60
     /\ variant \in {"published_final", "app"} => res.flight_time_minutes <= 120000
     /\ variant = "FULL"
          => res.flight_time_minutes = (res.raw_endurance_min \div 10) * 7
                                         + ((res.raw_endurance_min % 10) * 7) \div 10

C10_Witness ==
  /\ pc = "done"
  /\ variant = "published_final"
  /\ "distance" \in res.shown
  /\ res.flight_time_minutes = 120000
  /\ inp.speed > 0
  /\ res.distance_km = 2000 * inp.speed

\* C11: an Estimate that reports a flight time reports one strictly greater
\* than 0 (Final, published_final, hybrid_graph); in particular whenever the
\* power draw and the energy left for the flight are both positive.
C11_ReportedFlightTimePositive ==
  (pc = "done" /\ variant \in {"Final", "published_final", "hybrid_graph"}
     /\ "flight_time" \in res.shown)
  => res.flight_time_minutes > 0

\* C12: in FULL the dispatchable endurance is the raw endurance times
\* (1 - 0.30) on the battery branch and on the ICE branch; the raw battery
\* endurance is (0.85 x max(0, adjusted battery Wh) / max(5, total draw W)) x 60;
\* the dispatchable endurance is never above the raw one and never negative.
C12_DispatchIsSeventyPercentOfRaw ==
  (pc = "done" /\ variant = "FULL" /\ outcome # "payload_error")
  => /\ res.dispatch_endurance_min = (res.raw_endurance_min \div 10) * 7
                                       + ((res.raw_endurance_min % 10) * 7) \div 10
     /\ res.dispatch_endurance_min <= res.raw_endurance_min
     /\ res.dispatch_endurance_min >= 0
     /\ UAV_PROFILES[inp.model].power_system = "Battery"
          => res.raw_endurance_min =
               MulDiv(MulDiv(IF res.battery_capacity_wh > 0 THEN res.battery_capacity_wh
                             ELSE 0, 85, 100),
                      60000,
                      IF res.total_draw > 5000 THEN res.total_draw ELSE 5000)

C12_Witness ==
  /\ pc = "done"
  /\ variant = "FULL"
  /\ outcome = "reported"
  /\ inp.elev > 0
  /\ res.battery_capacity_wh > 0
  /\ res.raw_endurance_min > 1000
  /\ res.dispatch_endurance_min < res.raw_endurance_min
  /\ res.flight_time_minutes = res.dispatch_endurance_min

\* C13: the air density does not increase with the altitude: for altitudes
\* a1 <= a2 (both >= 0) the factor max(0.6, 1 - 0.01*alt/100) at a2 is <= the
\* factor at a1, beyond the altitude where the 0.6 floor is reached as well,
\* and air_density of FULL returns a density at a2 that is <= the one at a1
\* for the same sea-level temperature.
C13_DensityNonIncreasingInAltitude ==
  /\ (pc = "done" /\ variant = "helpers" /\ inp.fn = "calculate_air_density_factor")
       => \A a1 \in Altitudes :
            a1 <= inp.altitude_m => res.value <= calculate_air_density_factor(a1)
  /\ (pc = "done" /\ variant = "helpers" /\ inp.fn = "air_density")
       => /\ outcome = "returned"
          /\ \A a1 \in AltitudesFULL :
               a1 <= inp.alt_m => res.value <= air_density(a1, inp.sea_level_temp_C)

C15_AssistBoundedByPack ==
  (pc = "done" /\ variant = "FULL" /\ outcome # "payload_error"
     /\ UAV_PROFILES[inp.model].power_system = "ICE" /\ inp.hybrid_assist)
  => LET profile == UAV_PROFILES[inp.model]
         assist_power_W == (res.total_draw \div 100) * inp.assist_fraction
                             + ((res.total_draw % 100) * inp.assist_fraction) \div 100
         requested == inp.assist_duration_min * 1000
         kg_per_h == MulDiv(assist_power_W, profile.bsfc_gpkwh, 1000)
         L_per_h == MulDiv(kg_per_h, 10, IF profile.fuel_density_kgpl > 5000
                                         THEN profile.fuel_density_kgpl ELSE 5000)
     IN  /\ res.assist_energy_Wh >= 0
         /\ res.assist_energy_Wh <= profile.battery_wh
         /\ res.assist_duration_min <= requested
         /\ res.assist_duration_min < requested
              => /\ res.assist_duration_min = MulDiv(profile.battery_wh, 60000, assist_power_W)
                 /\ res.assist_energy_Wh = profile.battery_wh
         /\ res.assist_duration_min = requested
              => res.assist_energy_Wh = MulDiv(assist_power_W, inp.assist_duration_min, 60)
         /\ res.fuel_saved_L = MulDiv(L_per_h, res.assist_duration_min, 60000)

C15_Witness ==
  /\ pc = "done"
  /\ variant = "FULL"
  /\ UAV_PROFILES[inp.model].power_system = "ICE"
  /\ inp.hybrid_assist
  /\ res.assist_duration_min < inp.assist_duration_min * 1000
  /\ res.assist_energy_Wh = UAV_PROFILES[inp.model].battery_wh
  /\ res.fuel_saved_L > 0

\* C16: bsfc_fuel_burn_lph(P, bsfc, rho_f) is (bsfc/1000) x (P/1000) / rho_f
\* with a fuel density below 0.5 taken as 0.5; it is 0 at zero power and does
\* not decrease as the power grows.  climb_fuel_liters puts the climb energy
\* m*9.81*dh, in kWh, through the same conversion and is 0 for dh <= 0.  Both
\* are evaluated on the ICE branch of FULL and nowhere else.
C16_FuelFromBsfc ==
  /\ (pc = "done" /\ variant = "helpers" /\ inp.fn = "bsfc_fuel_burn_lph")
       => LET rho_f == IF inp.fuel_density_kgpl >= 5000 THEN inp.fuel_density_kgpl ELSE 5000
              mg_per_h == MulDiv(inp.power_W, inp.bsfc_gpkwh, 1000)
          IN  /\ res.value * rho_f <= mg_per_h * 10
              /\ (res.value + 1) * rho_f > mg_per_h * 10
              /\ inp.power_W = 0 => res.value = 0
              /\ \A lower \in FuelPowers :
                   lower <= inp.power_W
                     => bsfc_fuel_burn_lph(lower, inp.bsfc_gpkwh, inp.fuel_density_kgpl)
                          <= res.value
  /\ (pc = "done" /\ variant = "helpers" /\ inp.fn = "climb_fuel_liters")
       => LET rho_f == IF inp.fuel_density_kgpl >= 5000 THEN inp.fuel_density_kgpl ELSE 5000
              E_mWh == MulDiv(MulDiv(inp.total_mass_kg, 981, 100), inp.climb_m, 3600)
              mg == MulDiv(E_mWh, inp.bsfc_gpkwh, 1000)
          IN  IF inp.climb_m <= 0 THEN res.value = 0
              ELSE /\ res.value * rho_f <= mg * 10
                   /\ (res.value + 1) * rho_f > mg * 10
  /\ (pc = "done" /\ variant = "FULL" /\ outcome # "payload_error")
       => /\ "lph" \in res.assigned <=> UAV_PROFILES[inp.model].power_system = "ICE"
          /\ "climb_L_val" \in res.assigned <=> UAV_PROFILES[inp.model].power_system = "ICE"
          /\ UAV_PROFILES[inp.model].power_system # "ICE"
               => res.lph = 0 /\ res.usable_fuel_L = 0 /\ res.fuel_saved_L = 0

C16_Witness ==
  /\ pc = "done"
  /\ variant = "helpers"
  /\ inp.fn = "bsfc_fuel_burn_lph"
  /\ inp.fuel_density_kgpl < 5000
  /\ inp.power_W = 1000000
  /\ inp.bsfc_gpkwh = 260
  /\ res.value = 520

\* C17: the accepted payload range of FULL is 0 <= payload_g <= max_payload_g:
\* an Estimate submitted with a negative payload ends with the payload error,
\* and no result is computed from a total weight below the base weight.
C17_NegativePayloadRejected ==
  (pc = "done" /\ variant = "FULL")
  => /\ inp.payload < 0 => outcome = "payload_error"
     /\ outcome # "payload_error"
          => res.total_weight >= UAV_PROFILES[inp.model].base_weight_g

C19_ProfileTableUnchanged == profiles = TableOf(variant)

\* an accepted FULL run whose pack was clamped to the profile's, derated and
\* charged for the climb, with the profile's pack still as listed
C19_Witness ==
  /\ variant = "FULL" /\ pc = "done" /\ outcome = "reported"
  /\ ~inp.allow_pack_override /\ inp.battery > UAV_PROFILES[inp.model].battery_wh
  /\ inp.temp < 15 /\ inp.elev > 0
  /\ res.start_wh = UAV_PROFILES[inp.model].battery_wh
  /\ res.battery_capacity_wh < res.start_wh
  /\ profiles[inp.model].battery_wh = UAV_PROFILES[inp.model].battery_wh

\* C20: in UAV_Battery_Estimator_FULL the airspeed used in the power and range
\* calculation is never below the platform's SPEC_BOOK minimum (8 m/s for a
\* model with no entry), in every flight mode, Loiter included, and never
\* below the commanded speed when that is at or above the minimum
C20_AirspeedAtLeastMinimum ==
  (variant = "FULL" /\ pc = "done" /\ outcome # "payload_error")
    => /\ res.V_ref_ms >= clamp_min_speed(inp.model, 0)
       /\ (Max(100, MulDiv(inp.speed, 10000, 36)) >= clamp_min_speed(inp.model, 0)
             => res.V_ref_ms >= Max(100, MulDiv(inp.speed, 10000, 36)))

\* C21: heading_range_km(V_air, W, t) returns (best, worst): (0, 0) when
\* V_air <= 0.1; worst = 0 whenever W >= V_air; otherwise worst = (V_air - W) t
\* and best = (V_air + W) t (to the metre); for W >= 0 it holds that
\* 0 <= worst <= best; a negative t is treated as 0
C21_HeadingRange ==
  (pc = "done" /\ variant = "helpers" /\ inp.fn = "heading_range_km")
    => LET best == res.value[1]
           worst == res.value[2]
           t == IF inp.t_min < 0 THEN 0 ELSE inp.t_min
       IN  /\ inp.V_air_ms <= 100 => best = 0 /\ worst = 0
           /\ inp.V_air_ms > 100
                => Abs(best - MulDiv(inp.V_air_ms + inp.W_ms, 6 * t, 100000)) <= 1
           /\ (inp.V_air_ms > 100 /\ inp.W_ms >= inp.V_air_ms) => worst = 0
           /\ (inp.V_air_ms > 100 /\ inp.W_ms < inp.V_air_ms)
                => Abs(worst - MulDiv(inp.V_air_ms - inp.W_ms, 6 * t, 100000)) <= 1
           /\ inp.W_ms >= 0 => 0 <= worst /\ worst <= best
           /\ inp.t_min < 0 => best = 0 /\ worst = 0

\* a call with the wind faster than the aircraft: downwind range only
C21_Witness ==
  /\ pc = "done" /\ variant = "helpers" /\ inp.fn = "heading_range_km"
  /\ inp.V_air_ms > 100 /\ inp.W_ms > inp.V_air_ms /\ inp.t_min > 0
  /\ res.value[1] > 0 /\ res.value[2] = 0

\* C22: gust_penalty_fraction returns a fraction within [0.0, 0.35] for every
\* gustiness index, wind speed, airspeed and wing loading, zero and negative
\* ones included; the penalty an Estimate of FULL applies to the draw is
\* within the same range, so it never lowers the draw and never raises it by
\* more than 35 %
C22_GustPenaltyWithinRange ==
  /\ (pc = "done" /\ variant = "helpers" /\ inp.fn = "gust_penalty_fraction")
       => res.value >= 0 /\ res.value <= 3500
  /\ (pc = "done" /\ variant = "FULL" /\ outcome # "payload_error")
       => res.wind_penalty_frac >= 0 /\ res.wind_penalty_frac <= 3500

\* a call in strong gusts at low airspeed, where the ceiling is what is returned
C22_Witness ==
  /\ pc = "done" /\ variant = "helpers" /\ inp.fn = "gust_penalty_fraction"
  /\ inp.gustiness_index = 10 /\ inp.V_ms <= 0 /\ inp.wing_loading_Nm2 <= 0
  /\ res.value = 3500

\* C23: in UAV_Battery_Estimator_FULL, for a Battery profile without the debug
\* override the capacity entering the calculation is min(entered capacity,
\* profile battery_wh) floored at 0, so before any descent recovery the energy
\* used is never above the profile's pack and never negative; with the
\* override the entered capacity, floored at 0, is used
C23_PackClamp ==
  (variant = "FULL" /\ pc = "done" /\ outcome # "payload_error"
     /\ UAV_PROFILES[inp.model].power_system = "Battery")
    => LET pack == UAV_PROFILES[inp.model].battery_wh
           entered == IF inp.battery < 0 THEN 0 ELSE inp.battery
       IN  /\ ~inp.allow_pack_override
                => /\ res.start_wh = (IF entered < pack THEN entered ELSE pack)
                   /\ res.derated_wh <= pack
                   /\ inp.elev >= 0
                        => /\ res.battery_capacity_wh <= pack
                           /\ res.raw_endurance_min
                                <= FlightTime(MulDiv(pack, USABLE_BATT_FRAC, 100),
                                              Max(5000, res.total_draw))
           /\ inp.allow_pack_override => res.start_wh = entered
           /\ res.start_wh >= 0
           /\ res.derated_wh >= 0
           /\ res.raw_endurance_min >= 0

\* an accepted run on a Battery profile with more entered than the pack holds
C23_Witness ==
  /\ variant = "FULL" /\ pc = "done" /\ outcome = "reported"
  /\ UAV_PROFILES[inp.model].power_system = "Battery"
  /\ ~inp.allow_pack_override
  /\ inp.battery > UAV_PROFILES[inp.model].battery_wh
  /\ inp.elev = 0 /\ inp.temp = 25
  /\ res.start_wh = UAV_PROFILES[inp.model].battery_wh
  /\ res.raw_endurance_min > 0

\* C24: wherever a run reaches the flight-time division the divisor is
\* strictly positive (total draw > 0 in Final.py, app.py and published_final;
\* the draw floored at 0.1 W in hybrid_graph and at 5 W in the FULL battery
\* branch; the fuel burn floored at 0.05 L/h in the FULL ICE branch), and no
\* Estimate divides by zero
C24_NoDivisionByZero ==
  pc = "done"
    => /\ (variant \in {"Final", "published_final", "app"} /\ "flight_time" \in res.shown)
            => res.total_draw > 0
       /\ (variant \in {"hybrid_graph", "FULL"} /\ "flight_time" \in res.shown)
            => res.total_draw >= 0
       /\ outcome # "uncaught_error"

\* C25: in uav_simulator_published_final, for every submission that passes the
\* payload test the efficiency penalty is 1.0 for payload/max < 0.7, 1.1 for
\* 0.7 <= ratio < 0.9 and 1.25 for 0.9 <= ratio <= 1.0; the 1.4 branch is never
\* taken; a profile with max payload 0 gets penalty 1.0; the penalty is
\* non-decreasing in the payload
C25_EfficiencyPenaltySteps ==
  (variant = "published_final" /\ pc = "done" /\ outcome # "payload_error")
    => /\ res.max_lift > 0
            => /\ 10 * inp.payload < 7 * res.max_lift => res.efficiency_penalty = 100
               /\ (10 * inp.payload >= 7 * res.max_lift /\ 10 * inp.payload < 9 * res.max_lift)
                    => res.efficiency_penalty = 110
               /\ 10 * inp.payload >= 9 * res.max_lift => res.efficiency_penalty = 125
       /\ res.max_lift = 0 => res.efficiency_penalty = 100
       /\ res.efficiency_penalty # 140
       /\ \A lighter \in PayloadsPub(inp.model) :
            lighter <= inp.payload
              => EfficiencyPenalty(lighter, res.max_lift) <= res.efficiency_penalty

\* an accepted run with the payload at exactly 0.7 of the maximum
C25_Witness ==
  /\ variant = "published_final" /\ pc = "done" /\ outcome = "reported"
  /\ res.max_lift > 0 /\ 10 * inp.payload = 7 * res.max_lift
  /\ res.efficiency_penalty = 110

\* C26: in app.py an Estimate for 'Custom Build' with a positive calculated
\* max payload and positive remaining battery reports an estimated flight
\* time as a catalogue profile does; a Custom Build run never ends in the
\* 'Unexpected simulation error' handler
C26_CustomBuildReportsFlightTime ==
  (variant = "app" /\ pc = "done" /\ inp.model = "Custom Build")
    => /\ outcome # "unexpected_error"
       /\ (outcome # "payload_error" /\ res.max_lift > 0 /\ res.battery_capacity_wh > 0)
            => outcome = "reported" /\ "flight_time" \in res.shown

C28_RemainingWithinCapacity ==
  (pc = "done" /\ variant \in {"Final", "app"} /\ outcome = "reported")
    => /\ \A step \in 0..res.total_steps :
            /\ BatteryRemaining(res.battery_capacity_wh, res.total_draw, step) >= 0
            /\ BatteryRemaining(res.battery_capacity_wh, res.total_draw, step)
                 <= res.battery_capacity_wh
       /\ res.battery_remaining >= 0

\* C29: in the swarm advisor HYBRID_ASSIST applies to MQ-1/MQ-9 platforms
\* only: after any rounds and playback steps, whatever the action lists and
\* with or without stealth ingress, an agent of another platform has
\* hybrid_assist = False and assist_fraction = 0
C29_AssistOnlyForMQ ==
  pc \in {"round", "playback", "shown"} =>
    \A id \in SwarmIds :
      res.swarm[id].platform \notin {"MQ-1 Predator", "MQ-9 Reaper"} =>
        /\ ~res.swarm[id].hybrid_assist
        /\ res.swarm[id].assist_fraction = 0

\* a state C29 is about: an agent of another platform that the last action
\* list ordered to HYBRID_ASSIST, inside the threat zone under stealth
\* ingress, after the playback has begun
C29_Witness ==
  /\ pc \in {"playback", "shown"}
  /\ res.t >= 1
  /\ inp.stealth_ingress
  /\ \E id \in SwarmIds :
       /\ res.swarm[id].platform \notin {"MQ-1 Predator", "MQ-9 Reaper"}
       /\ in_zone(res.swarm[id], inp.threat_zone_km)
       /\ \E k \in 1..Len(res.acts) :
            res.acts[k].uav_id = id /\ res.acts[k].action = "HYBRID_ASSIST"
       /\ ~res.swarm[id].hybrid_assist

====
